---- MODULE Spec2Model ----
(***************************************************************************)
(* A model of the delegation protocol of a2a_multiagent:                   *)
(*   - the authorization server            (idp/app.py),                   *)
(*   - the task router / orchestrator      (host_agent/routing_agent.py),  *)
(*   - the OAuth callback consumer         (host_agent/__main__.py).       *)
(* Optional values are sequences of length 0 or 1 (Nil / Some(x)).         *)
(***************************************************************************)
EXTENDS Integers, Sequences, FiniteSets, TLC

Nil == <<>>
Some(x) == <<x>>

(***************************************************************************)
(* Bounds of the model.                                                    *)
(***************************************************************************)
\* authorization codes minted by /consent over one run
MaxCodes == 1
\* token-endpoint requests that may be in flight at the same time
NumReqs == 2

(***************************************************************************)
(* Program constants of the authorization server.                          *)
(***************************************************************************)
\* lifetime of an authorization code, seconds (app.py:279)
CODE_TTL == 300
\* lifetime of a token, seconds (app.py:153, and "expires_in" at 253/376/471)
TOKEN_TTL == 3600

ISSUER == "http://localhost:5000"
RESOURCE_AUDIENCE == "http://localhost:8081"
\* JWKS["keys"][0]["kid"], the key id the server signs with (app.py:140)
KID == "idp-key-1"

DEV_UI_URI == "http://localhost:8000/dev-ui/"
CALLBACK_URI == "http://localhost:8083/callback"
\* a URI that has the callback URI as a prefix but is registered nowhere
EVIL_URI == "http://localhost:8083/callback/evil"

USER_REGISTRY ==
  [u \in {"john.doe", "jane.doe"} |->
     IF u = "john.doe"
     THEN [password |-> "password123", sub |-> "john.doe",
           profile |-> "I am John Doe.", email |-> "john.doe @example.com",
           tenant_id |-> "tenant-abc"]
     ELSE [password |-> "password123", sub |-> "jane.doe",
           profile |-> "I am Jane Doe.", email |-> "jane.doe @example.com",
           tenant_id |-> "tenant-xyz"]]

CLIENT_REGISTRY ==
  [c \in {"airbnb_agent", "weather_agent", "Horizon Agent - Tenant ABC",
          "Calendar Agent"} |->
     CASE c = "airbnb_agent" ->
            [client_secret |-> "airbnb_secret",
             allowed_scopes |-> {"api:read", "api:write", "openid", "profile", "email"},
             redirect_uri |-> {DEV_UI_URI},
             client_name |-> "Airbnb Agent"]
       [] c = "weather_agent" ->
            [client_secret |-> "weather_secret",
             allowed_scopes |-> {"api:read", "openid"},
             redirect_uri |-> {CALLBACK_URI},
             client_name |-> "Weather Agent"]
       [] c = "Horizon Agent - Tenant ABC" ->
            [client_secret |-> "horizon_secret_abc",
             allowed_scopes |-> {"api:read", "openid", "profile", "email"},
             redirect_uri |-> {CALLBACK_URI},
             client_name |-> "Horizon Agent - Tenant ABC"]
       [] OTHER ->
            [client_secret |-> "calendar_secret",
             allowed_scopes |-> {"api:read", "openid", "profile", "email"},
             redirect_uri |-> {CALLBACK_URI},
             client_name |-> "Calendar Agent"]]

(***************************************************************************)
(* Strings handled by the server.  A scope string is modelled by the       *)
(* sequence of its space-separated parts; Split and Join are str.split(" ")*)
(* and " ".join: the empty string splits into one empty part.              *)
(***************************************************************************)
Split(s) == IF s = <<>> THEN <<"">> ELSE s
Join(parts) == IF parts = <<"">> THEN <<>> ELSE parts

\* base64url(sha256(verifier)) without padding (app.py:440-446), as a table
\* over the verifiers of the model: distinct verifiers, distinct digests.
S256(verifier) ==
  CASE verifier = "verifier-1" -> "E9Mel-1"
    [] verifier = "verifier-2" -> "dBjft-2"
    [] OTHER -> "47DEQ-0"

(***************************************************************************)
(* State.                                                                   *)
(***************************************************************************)
VARIABLES
  now,                  \* time.time() of the authorization server
  session,              \* the Flask session of the one browser
  AUTHORIZATION_CODES,  \* code -> stored grant
  nextCode,             \* the next value os.urandom yields (never repeats)
  treq,                 \* token-endpoint requests in flight
  lastResp,             \* the response the server sent last
  issued                \* per code: number of exchanges that returned tokens

idpVars == <<now, session, AUTHORIZATION_CODES, nextCode, treq, lastResp, issued>>

\* the instants at which the clock is observed: the start, and the last
\* instant before and the first after a code minted at the start expires
TimePoints == {0, CODE_TTL, CODE_TTL + 1}

Codes == 1..MaxCodes
Reqs == 1..NumReqs

(***************************************************************************)
(* Responses.                                                               *)
(***************************************************************************)
Response(ep, status, error, desc) ==
  [ep |-> ep, status |-> status, error |-> error, desc |-> desc,
   access_token |-> Nil, id_token |-> Nil, scope |-> Nil,
   redirect |-> Nil, req |-> Nil]

NoResponse == Response("none", 0, "", "")

generate_jwtUnderOtherKid(payload) ==
  [kid |-> "other-kid", alg |-> "RS256", payload |-> payload, key |-> "idp_rsa"]

\* generate_jwt (app.py:136-143): the payload signed with the server's key
\* (GENERATE_JWT has its default, true: app.py:54)
generate_jwt(payload) ==
  [kid |-> KID, alg |-> "RS256", payload |-> payload, key |-> "idp_rsa"]

create_access_tokenOfTenantAbc(client_id, scopes, user_sub, tenant_id, t) ==
  generate_jwt([iss |-> ISSUER, aud |-> RESOURCE_AUDIENCE,
                sub |-> IF user_sub # Nil THEN user_sub[1] ELSE client_id,
                exp |-> t + TOKEN_TTL, iat |-> t,
                scope |-> Join(scopes),
                tenant_id |-> Some("tenant-abc")])

create_access_tokenForClient(client_id, scopes, user_sub, tenant_id, t) ==
  generate_jwt([iss |-> ISSUER, aud |-> RESOURCE_AUDIENCE,
                sub |-> client_id,
                exp |-> t + TOKEN_TTL, iat |-> t,
                scope |-> Join(scopes),
                tenant_id |-> Nil])

\* create_access_token (app.py:145-162)
create_access_token(client_id, scopes, user_sub, tenant_id, t) ==
  generate_jwt([iss |-> ISSUER, aud |-> RESOURCE_AUDIENCE,
                sub |-> IF user_sub # Nil THEN user_sub[1] ELSE client_id,
                exp |-> t + TOKEN_TTL, iat |-> t,
                scope |-> Join(scopes),
                tenant_id |-> tenant_id])

\* create_id_token (app.py:164-184)
create_id_token(client_id, user_data, scopes, t) ==
  generate_jwt([iss |-> ISSUER, sub |-> user_data.sub, aud |-> client_id,
                exp |-> t + TOKEN_TTL, iat |-> t, auth_time |-> t,
                email |-> user_data.email, profile |-> user_data.profile,
                scope |-> Join(scopes)])

(***************************************************************************)
(* The Flask session is a dict: keys are present or absent.                *)
(***************************************************************************)
DictGet(d, k) == IF k \in DOMAIN d THEN Some(d[k]) ELSE Nil
DictSet(d, k, v) == [x \in (DOMAIN d) \cup {k} |-> IF x = k THEN v ELSE d[x]]
DictPop(d, k) == [x \in (DOMAIN d) \ {k} |-> d[x]]
EmptyDict == [x \in {} |-> Nil]

(***************************************************************************)
(* Inputs of the /authorize and /consent requests.                         *)
(***************************************************************************)
AuthorizeClientIds == {"Horizon Agent - Tenant ABC", "unknown_client"}
AuthorizeRedirectUris == {CALLBACK_URI, EVIL_URI}
ResponseTypes == {"code", "token id_token"}
ScopeStrings == {<<"openid", "api:read">>}
Challenges == {Nil, Some(S256("verifier-1"))}

\* every request of the registered client at its registered URI, and one
\* request for each way in which the client or the URI can be wrong
AuthorizeArgs ==
  {a \in [client_id : AuthorizeClientIds, redirect_uri : AuthorizeRedirectUris,
           response_type : ResponseTypes, scope : ScopeStrings,
           state : {Some("st-1")}, code_challenge : Challenges] :
     \/ a.client_id = "Horizon Agent - Tenant ABC" /\ a.redirect_uri = CALLBACK_URI
     \/ /\ a.response_type = "code" /\ a.code_challenge = Nil
        /\ (a.client_id = "Horizon Agent - Tenant ABC" \/ a.redirect_uri = CALLBACK_URI)}

\* the code_challenge_method sent along with a challenge
MethodOf(challenge) == IF challenge = Nil THEN Nil ELSE Some("S256")

\* a registered user and a name that is not registered
Usernames == {"john.doe", "mallory"}
Passwords == {"password123", "wrong"}

(***************************************************************************)
(* GET /authorize (app.py:196-207)                                         *)
(***************************************************************************)
RegisteredAnyUri(client_id, redirect_uri) == client_id \in DOMAIN CLIENT_REGISTRY

\* line 201, negated: the client is registered and the URI is one of its
\* redirect URIs
Registered(client_id, redirect_uri) ==
  /\ client_id \in DOMAIN CLIENT_REGISTRY
  /\ redirect_uri \in CLIENT_REGISTRY[client_id].redirect_uri

AuthorizeGet(args) ==
  /\ IF ~Registered(args.client_id, args.redirect_uri)
     THEN /\ lastResp' = Response("authorize", 400, "", "Invalid client or redirect URI")
          /\ UNCHANGED session
     ELSE /\ session' = DictSet(session, "auth_request",
                [client_id |-> args.client_id,
                 redirect_uri |-> args.redirect_uri,
                 response_type |-> args.response_type,
                 scope |-> args.scope,
                 state |-> args.state,
                 code_challenge |-> args.code_challenge,
                 code_challenge_method |-> MethodOf(args.code_challenge),
                 client_name |-> CLIENT_REGISTRY[args.client_id].client_name])
          /\ lastResp' = Response("authorize", 200, "", "login.html")
  /\ UNCHANGED <<now, AUTHORIZATION_CODES, nextCode, treq, issued>>

(***************************************************************************)
(* POST /authorize (app.py:209-224).  Rendering the login page again reads *)
(* auth_request["client_name"]: with no auth_request in the session that   *)
(* raises TypeError, which Flask answers with 500.                         *)
(***************************************************************************)
AuthorizePost(username, password) ==
  LET auth_request == DictGet(session, "auth_request") IN
  /\ IF \/ username \notin DOMAIN USER_REGISTRY
        \/ USER_REGISTRY[username].password # password
     THEN /\ lastResp' = IF auth_request = Nil
                          THEN Response("authorize", 500, "exception", "TypeError")
                          ELSE Response("authorize", 200, "Invalid username or password",
                                        "login.html")
          /\ UNCHANGED session
     ELSE /\ session' = DictSet(session, "user", USER_REGISTRY[username])
          /\ lastResp' = Response("authorize", 200, "", "consent.html")
  /\ UNCHANGED <<now, AUTHORIZATION_CODES, nextCode, treq, issued>>

(***************************************************************************)
(* POST /consent (app.py:226-318)                                          *)
(***************************************************************************)
Redirect(uri, part, code, state, error) ==
  [uri |-> uri, part |-> part, code |-> code, state |-> state, error |-> error]

NewGrantWithoutChallenge(ar, u, scopes, t) ==
  [client_id |-> ar.client_id,
   user |-> u,
   scopes |-> scopes,
   redirect_uri |-> ar.redirect_uri,
   expires_at |-> t + CODE_TTL,
   code_challenge |-> Nil,
   code_challenge_method |-> Nil]

\* lines 274-282: the grant stored under a new code
NewGrant(ar, u, scopes, t) ==
  [client_id |-> ar.client_id,
   user |-> u,
   scopes |-> scopes,
   redirect_uri |-> ar.redirect_uri,
   expires_at |-> t + CODE_TTL,
   code_challenge |-> ar.code_challenge,
   code_challenge_method |-> ar.code_challenge_method]

DeniedWithoutState(ar) == Redirect(ar.redirect_uri, "query", Nil, Nil, Some("access_denied"))

\* lines 301-318: the redirect that reports the denial
Denied(ar) == Redirect(ar.redirect_uri, "query", Nil, ar.state, Some("access_denied"))

Consent(consent) ==
  LET auth_request == DictGet(session, "auth_request")
      user == DictGet(session, "user")
  IN
  IF auth_request = Nil \/ user = Nil
  THEN /\ lastResp' = Response("consent", 400, "", "Invalid session")
       /\ UNCHANGED <<now, session, AUTHORIZATION_CODES, nextCode, treq, issued>>
  ELSE
    LET ar == auth_request[1]
        u == user[1]
        scopes == Split(ar.scope)
    IN
    IF consent = "true" /\ ar.response_type \in {"token id_token", "id_token token"}
    THEN /\ lastResp' =
              [Response("consent", 302, "", "") EXCEPT
                 !.access_token = Some(create_access_token(ar.client_id, scopes,
                                          Some(u.sub), Some(u.tenant_id), now)),
                 !.id_token = Some(create_id_token(ar.client_id, u, scopes, now)),
                 !.scope = Some(Join(scopes)),
                 !.redirect = Some(Redirect(ar.redirect_uri, "fragment", Nil, ar.state, Nil))]
         /\ session' = DictPop(DictPop(session, "auth_request"), "user")
         /\ UNCHANGED <<now, AUTHORIZATION_CODES, nextCode, treq, issued>>
    ELSE IF consent = "true" /\ ar.response_type = "code"
    THEN /\ nextCode <= MaxCodes
         /\ AUTHORIZATION_CODES' = DictSet(AUTHORIZATION_CODES, nextCode,
                                           NewGrant(ar, u, scopes, now))
         /\ nextCode' = nextCode + 1
         /\ lastResp' =
              [Response("consent", 302, "", "") EXCEPT
                 !.redirect = Some(Redirect(ar.redirect_uri, "query", Some(nextCode),
                                            ar.state, Nil))]
         /\ session' = DictPop(DictPop(session, "auth_request"), "user")
         /\ UNCHANGED <<now, treq, issued>>
    ELSE \* user denied consent or invalid response type: the session is kept
         /\ lastResp' =
              [Response("consent", 302, "", "User denied access") EXCEPT
                 !.redirect = Some(Denied(ar))]
         /\ UNCHANGED <<now, session, AUTHORIZATION_CODES, nextCode, treq, issued>>

(***************************************************************************)
(* POST /generate-token (app.py:320-476).                                  *)
(* The handler is split where another request can run in between: the      *)
(* only access to shared state is AUTHORIZATION_CODES.pop (line 386), so   *)
(* TokenBegin runs lines 322-398 and TokenFinish lines 400-474.            *)
(***************************************************************************)
\* the Authorization header (absent, "Basic " with undecodable credentials,
\* or "Basic " base64(id ":" secret)) and the client_id and client_secret
\* form fields
FormCredentials ==
  { <<Nil, <<Some("Horizon Agent - Tenant ABC"), Some("horizon_secret_abc")>> >>,
    <<Nil, <<Some("airbnb_agent"), Some("airbnb_secret")>> >> }

Credentials ==
  FormCredentials \cup
  { <<Nil, <<Some("Horizon Agent - Tenant ABC"), Some("airbnb_secret")>> >>,
    <<Nil, <<Some("unknown_client"), Some("airbnb_secret")>> >>,
    << <<"Horizon Agent - Tenant ABC", "horizon_secret_abc">>,
       <<Some("airbnb_agent"), Some("airbnb_secret")>> >>,
    << <<"malformed">>, <<Nil, Nil>> >> }

Verifiers == {Nil, Some("verifier-1"), Some("verifier-2")}
\* code 0 is a value the server never minted
PresentedCodes == {Some(c) : c \in 0..MaxCodes}

TokenParams(cr, grant_type, scope, code, redirect_uri, code_verifier) ==
  [basic |-> cr[1], client_id |-> cr[2][1], client_secret |-> cr[2][2],
   grant_type |-> grant_type, scope |-> scope, code |-> code,
   redirect_uri |-> redirect_uri, code_verifier |-> code_verifier]

\* every exchange with valid form credentials, and for the other ways of
\* presenting credentials the exchange of each code at the callback URI
AuthorizationCodeRequests ==
  {TokenParams(cr, "authorization_code", <<>>, c, Some(u), v) :
     cr \in FormCredentials, c \in PresentedCodes,
     u \in {DEV_UI_URI, CALLBACK_URI}, v \in Verifiers}
  \cup
  {TokenParams(cr, "authorization_code", <<>>, c, Some(CALLBACK_URI), Some("verifier-1")) :
     cr \in Credentials \ FormCredentials, c \in PresentedCodes}

OtherGrantRequests ==
  {TokenParams(cr, g, <<"api:read">>, Nil, Nil, Nil) :
     cr \in {c \in Credentials : c[1] = Nil /\ c[2][1] # Some("airbnb_agent")},
     g \in {"client_credentials", "refresh_token"}}

TokenRequests == AuthorizationCodeRequests \cup OtherGrantRequests

\* lines 322-336: Basic credentials take precedence, a header that cannot be
\* decoded falls back to the form fields
ClientCredentials(p) ==
  IF Len(p.basic) = 2
  THEN <<Some(p.basic[1]), Some(p.basic[2])>>
  ELSE <<p.client_id, p.client_secret>>

AuthenticateClientAnySecret(client_id, client_secret) ==
  IF client_id = Nil \/ client_id[1] \notin DOMAIN CLIENT_REGISTRY
  THEN Some(Response("token", 401, "invalid_client", "Client not found"))
  ELSE Nil

\* lines 340-361: None when the client authenticates, else the 401 response
AuthenticateClient(client_id, client_secret) ==
  IF client_id = Nil \/ client_id[1] \notin DOMAIN CLIENT_REGISTRY
  THEN Some(Response("token", 401, "invalid_client", "Client not found"))
  ELSE IF Some(CLIENT_REGISTRY[client_id[1]].client_secret) # client_secret
  THEN Some(Response("token", 401, "invalid_client", "Client authentication failed"))
  ELSE Nil

ClientCredentialsGrantAnyScope(client_id, scope, t) ==
  [Response("token", 200, "", "") EXCEPT
     !.access_token = Some(create_access_token(client_id, Split(scope), Nil, Nil, t)),
     !.scope = Some(Join(Split(scope)))]

\* lines 363-379
ClientCredentialsGrant(client_id, scope, t) ==
  LET scopes == Split(scope) IN
  IF \E i \in 1..Len(scopes) : scopes[i] \notin CLIENT_REGISTRY[client_id].allowed_scopes
  THEN Response("token", 400, "invalid_scope", "")
  ELSE [Response("token", 200, "", "") EXCEPT
          !.access_token = Some(create_access_token(client_id, scopes, Nil, Nil, t)),
          !.scope = Some(Join(scopes))]

\* AUTHORIZATION_CODES.pop(code, None), line 386: the value ...
PopData(codes, code) ==
  IF code # Nil /\ code[1] \in DOMAIN codes THEN Some(codes[code[1]]) ELSE Nil

\* ... and the dict it leaves behind
PopRestKeepsCode(codes, code) == codes

PopRest(codes, code) ==
  IF code # Nil /\ code[1] \in DOMAIN codes THEN DictPop(codes, code[1]) ELSE codes

IsExpiredNever(t, data) == FALSE

\* line 415: time.time() > auth_code_data["expires_at"]
IsExpired(t, data) == t > data.expires_at

PkceFailureNone(data, code_verifier) == Nil

\* lines 427-457: None when the PKCE check passes or does not apply, else
\* the error response
PkceFailure(data, code_verifier) ==
  IF data.code_challenge = Nil THEN Nil
  ELSE IF code_verifier = Nil
  THEN Some(Response("token", 400, "invalid_request",
                     "Code verifier is required for PKCE flow."))
  ELSE IF S256(code_verifier[1]) # data.code_challenge[1]
  THEN Some(Response("token", 400, "invalid_grant", "PKCE code challenge mismatch."))
  ELSE Nil

\* lines 400-474: the checks on the popped grant and the token response
ExchangeResult(data, client_id, redirect_uri, code_verifier, t) ==
  IF Some(data.redirect_uri) # redirect_uri \/ data.client_id # client_id
  THEN Response("token", 400, "invalid_grant", "Redirect URI or client ID mismatch")
  ELSE IF IsExpired(t, data)
  THEN Response("token", 400, "invalid_grant", "Authorization code has expired")
  ELSE IF PkceFailure(data, code_verifier) # Nil
  THEN PkceFailure(data, code_verifier)[1]
  ELSE [Response("token", 200, "", "") EXCEPT
          !.access_token = Some(create_access_token(client_id, data.scopes,
                                   Some(data.user.sub), Some(data.user.tenant_id), t)),
          !.id_token = Some(create_id_token(client_id, data.user, data.scopes, t)),
          !.scope = Some(Join(data.scopes))]

IdleReq == [pc |-> "idle", params |-> Nil, client_id |-> Nil, data |-> Nil]

\* what a response says about the request it answers
ReqInfo(p, client_id, data) ==
  Some([grant_type |-> p.grant_type, code |-> p.code, client_id |-> client_id,
        pkce |-> data # Nil /\ data[1].code_challenge # Nil])

TokenBegin(r, p) ==
  LET cred == ClientCredentials(p)
      failure == AuthenticateClient(cred[1], cred[2])
      data == PopData(AUTHORIZATION_CODES, p.code)
  IN
  /\ treq[r].pc = "idle"
  /\ IF failure # Nil
     THEN /\ lastResp' = [failure[1] EXCEPT !.req = ReqInfo(p, Nil, Nil)]
          /\ UNCHANGED <<AUTHORIZATION_CODES, treq>>
     ELSE IF p.grant_type = "client_credentials"
     THEN /\ lastResp' = [ClientCredentialsGrant(cred[1][1], p.scope, now)
                            EXCEPT !.req = ReqInfo(p, cred[1], Nil)]
          /\ UNCHANGED <<AUTHORIZATION_CODES, treq>>
     ELSE IF p.grant_type = "authorization_code"
     THEN /\ AUTHORIZATION_CODES' = PopRest(AUTHORIZATION_CODES, p.code)
          /\ IF data = Nil
             THEN /\ lastResp' =
                       [Response("token", 400, "invalid_grant",
                                 "Invalid or expired authorization code.")
                          EXCEPT !.req = ReqInfo(p, cred[1], Nil)]
                  /\ UNCHANGED treq
             ELSE /\ treq' = [treq EXCEPT ![r] = [pc |-> "popped", params |-> Some(p),
                                                  client_id |-> cred[1], data |-> data]]
                  /\ UNCHANGED lastResp
     ELSE /\ lastResp' = [Response("token", 400, "unsupported_grant_type", "")
                            EXCEPT !.req = ReqInfo(p, cred[1], Nil)]
          /\ UNCHANGED <<AUTHORIZATION_CODES, treq>>
  /\ UNCHANGED <<now, session, nextCode, issued>>

TokenFinish(r) ==
  /\ treq[r].pc = "popped"
  /\ LET p == treq[r].params[1]
         resp == ExchangeResult(treq[r].data[1], treq[r].client_id[1],
                                p.redirect_uri, p.code_verifier, now)
     IN /\ lastResp' = [resp EXCEPT !.req = ReqInfo(p, treq[r].client_id, treq[r].data)]
        /\ issued' = IF resp.status = 200
                     THEN [issued EXCEPT ![p.code[1]] = @ + 1]
                     ELSE issued
  /\ treq' = [treq EXCEPT ![r] = IdleReq]
  /\ UNCHANGED <<now, session, AUTHORIZATION_CODES, nextCode>>

\* the client a request authenticates as: None when authentication fails
AuthenticatedClient(p) ==
  LET cred == ClientCredentials(p) IN
  IF AuthenticateClient(cred[1], cred[2]) = Nil THEN cred[1] ELSE Nil

\* the response to request p when the handler runs without another request
\* in between
TokenResponse(p) ==
  LET cred == ClientCredentials(p)
      failure == AuthenticateClient(cred[1], cred[2])
      data == PopData(AUTHORIZATION_CODES, p.code)
  IN IF failure # Nil THEN failure[1]
     ELSE IF p.grant_type = "client_credentials"
     THEN ClientCredentialsGrant(cred[1][1], p.scope, now)
     ELSE IF p.grant_type = "authorization_code"
     THEN IF data = Nil
          THEN Response("token", 400, "invalid_grant",
                        "Invalid or expired authorization code.")
          ELSE ExchangeResult(data[1], cred[1][1], p.redirect_uri, p.code_verifier, now)
     ELSE Response("token", 400, "unsupported_grant_type", "")

GenerateToken(p) ==
  LET popped == AuthenticatedClient(p) # Nil /\ p.grant_type = "authorization_code"
      resp == TokenResponse(p)
  IN
  /\ \A r \in Reqs : treq[r].pc = "idle"
  /\ lastResp' = [resp EXCEPT !.req =
                    ReqInfo(p, AuthenticatedClient(p),
                            IF popped THEN PopData(AUTHORIZATION_CODES, p.code) ELSE Nil)]
  /\ AUTHORIZATION_CODES' = IF popped THEN PopRest(AUTHORIZATION_CODES, p.code)
                                      ELSE AUTHORIZATION_CODES
  /\ issued' = IF popped /\ resp.status = 200
                THEN [issued EXCEPT ![p.code[1]] = @ + 1]
                ELSE issued
  /\ UNCHANGED <<now, session, nextCode, treq>>

\* a request presents a code the server has handed out, or one it never minted
Presentable(p) == IF p.code = Nil THEN TRUE ELSE p.code[1] < nextCode

\* time passes
Tick ==
  /\ \E t \in TimePoints : t > now /\ now' = t
  /\ UNCHANGED <<session, AUTHORIZATION_CODES, nextCode, treq, lastResp, issued>>

(***************************************************************************)
(* The token validator (auth_lib/validator.py).                            *)
(* A token is a text; a text that parses as a JWT has the header fields    *)
(* kid and alg, the key that made its signature, and a payload.  An absent *)
(* header field or claim is None.                                          *)
(***************************************************************************)
VARIABLES
  oidc_config,   \* the cached discovery document (validator.py:20)
  jwks,          \* the cached key set (validator.py:21)
  lastValid,     \* what is_token_valid returned last
  lastRequired,  \* the required_tenant_id of that call
  lastGets,      \* the number of requests.get calls that call made
  validations,   \* the calls of is_token_valid in progress, one per thread
  fetched        \* the documents and key sets the fetches have returned

validatorVars == <<oidc_config, jwks, lastValid, lastRequired, lastGets,
                   validations, fetched>>

JWKS_URI == "http://localhost:5000/jwks.json"

\* answers to GET <OIDC_CONFIG_URL>: a RequestException, the document of
\* idp/app.py (lines 79-96), a document without jwks_uri
DiscoveryAnswers ==
  {Nil,
   Some([issuer |-> Some(ISSUER), jwks_uri |-> Some(JWKS_URI)]),
   Some([issuer |-> Some(ISSUER), jwks_uri |-> Nil])}

\* answers to GET <jwks_uri>: a RequestException, the key set of the server
JwksAnswers == {Nil, Some(<<[kid |-> KID, key |-> "idp_rsa"]>>)}

EmptyToken == [text |-> "", jwt |-> Nil]
NotAJwt == [text |-> "not.a-jwt", jwt |-> Nil]

\* how a JWT is signed: by the server, by another RSA key, with the HMAC of
\* the published public key, or not at all
Signatures ==
  {[alg |-> "RS256", key |-> "idp_rsa"], [alg |-> "RS256", key |-> "other_rsa"],
   [alg |-> "HS256", key |-> "public"], [alg |-> "none", key |-> "none"]}

Payloads ==
  [iss : {Some(ISSUER), Some("http://other.idp")},
   aud : {Some(RESOURCE_AUDIENCE), Some("Horizon Agent - Tenant ABC")},
   sub : {"john.doe"},
   exp : {Nil, Some(CODE_TTL), Some(TOKEN_TTL)},
   tenant_id : {Nil, Some("tenant-abc"), Some("tenant-xyz")}]

Jwts ==
  {[text |-> "header.payload.signature",
    jwt |-> Some([kid |-> kid, alg |-> sig.alg, key |-> sig.key, payload |-> payload])] :
     kid \in {Nil, Some(KID), Some("other-kid")}, sig \in Signatures, payload \in Payloads}

Tokens == {EmptyToken, NotAJwt} \cup Jwts

RequiredTenantIds == {Nil, Some("tenant-abc")}

Verdict(valid, reason, claims) == [valid |-> valid, reason |-> reason, claims |-> claims]

Invalid(reason) == Verdict(FALSE, Some(reason), Nil)

NoVerdict == Verdict(FALSE, Nil, Nil)

CachedNever(cache) == FALSE

\* "if oidc_config is None" (line 27) and "if jwks is None" (line 43),
\* negated: the global holds a fetched value
Cached(cache) == cache # Nil

get_oidc_configKeepingNothing(cache, discovery) ==
  IF discovery = Nil
  THEN [oidc_config |-> Nil, value |-> Nil,
        error |-> Some("Error fetching OIDC config: RequestException"), gets |-> 1]
  ELSE [oidc_config |-> Nil, value |-> discovery, error |-> Nil, gets |-> 1]

\* get_oidc_config (validator.py:24-37): the cache after the call, the
\* returned pair and the number of requests made
get_oidc_config(cache, discovery) ==
  IF Cached(cache)
  THEN [oidc_config |-> cache, value |-> cache, error |-> Nil, gets |-> 0]
  ELSE IF discovery = Nil
  THEN [oidc_config |-> Nil, value |-> Nil,
        error |-> Some("Error fetching OIDC config: RequestException"), gets |-> 1]
  ELSE [oidc_config |-> discovery, value |-> discovery, error |-> Nil, gets |-> 1]

\* get_jwks (validator.py:40-56)
get_jwks(jwks_cache, config_cache, discovery, keys) ==
  IF Cached(jwks_cache)
  THEN [jwks |-> jwks_cache, oidc_config |-> config_cache, value |-> jwks_cache,
        error |-> Nil, gets |-> 0]
  ELSE LET c == get_oidc_config(config_cache, discovery) IN
       IF c.error # Nil
       THEN [jwks |-> Nil, oidc_config |-> c.oidc_config, value |-> Nil,
             error |-> c.error, gets |-> c.gets]
       ELSE IF c.value[1].jwks_uri = Nil
       THEN [jwks |-> Nil, oidc_config |-> c.oidc_config, value |-> Nil,
             error |-> Some("jwks_uri not found in OIDC configuration."), gets |-> c.gets]
       ELSE IF keys = Nil
       THEN [jwks |-> Nil, oidc_config |-> c.oidc_config, value |-> Nil,
             error |-> Some("Error fetching JWKS: RequestException"), gets |-> c.gets + 1]
       ELSE [jwks |-> keys, oidc_config |-> c.oidc_config, value |-> keys,
             error |-> Nil, gets |-> c.gets + 1]

\* lines 77-79: the first key of the set that has the kid
MatchingKey(keys, kid) ==
  LET at == {i \in 1..Len(keys) : keys[i].kid = kid} IN
  IF at = {} THEN Nil ELSE Some(keys[CHOOSE i \in at : \A j \in at : i <= j])

SignatureVerifiesAlways(header, key) == "ok"

\* jwt.decode (lines 85-92), the signature: algorithms=[header["alg"]]
\* admits the algorithm the token names, and the key is an RSA public key
\* object, which "none" and the HMAC algorithms refuse to work with
SignatureVerifies(header, key) ==
  IF header.alg # "RS256" THEN "InvalidKeyError"
  ELSE IF header.key # key.key THEN "InvalidSignatureError"
  ELSE "ok"

ExpiredNever(payload, t) == FALSE

\* jwt.decode, verify_exp: a payload that has exp is expired from exp on
Expired(payload, t) == payload.exp # Nil /\ payload.exp[1] <= t

\* jwt.decode, the claims: exp, then iss, then aud
ClaimsVerify(payload, issuer, audience, t) ==
  IF Expired(payload, t) THEN "ExpiredSignatureError"
  ELSE IF issuer # Nil /\ payload.iss # issuer THEN "InvalidIssuerError"
  ELSE IF payload.aud # Some(audience) THEN "InvalidAudienceError"
  ELSE "ok"

\* lines 103-112: the reason returned for an exception
ReasonOf(exception) ==
  CASE exception = "ExpiredSignatureError" -> "Token has expired."
    [] exception = "InvalidAudienceError" -> "Invalid audience."
    [] exception = "InvalidIssuerError" -> "Invalid issuer."
    [] exception = "InvalidSignatureError" -> "Invalid token: Signature verification failed"
    [] exception = "DecodeError" -> "Invalid token: Not enough segments"
    [] OTHER -> "An unexpected error occurred during token validation"

TenantFailureNone(claims, required_tenant_id) == Nil

\* lines 94-100: None when the tenant check passes or is not asked for
TenantFailure(claims, required_tenant_id) ==
  IF required_tenant_id = Nil THEN Nil
  ELSE IF claims.tenant_id = Nil THEN Some("'tenant_id' claim not found in token.")
  ELSE IF claims.tenant_id # required_tenant_id
  THEN Some("Token 'tenant_id' (" \o claims.tenant_id[1]
            \o ") does not match required tenant_id (" \o required_tenant_id[1] \o ").")
  ELSE Nil

\* lines 71-112, with the key set and the issuer of the discovery document
ValidateWith(token, required_tenant_id, keys, issuer, t) ==
  IF token.jwt = Nil THEN Invalid(ReasonOf("DecodeError"))
  ELSE
    LET header == token.jwt[1]
        claims == token.jwt[1].payload
    IN
    IF header.kid = Nil THEN Invalid("Token header missing 'kid'.")
    ELSE IF MatchingKey(keys, header.kid[1]) = Nil
    THEN Invalid("No matching key found in JWKS.")
    ELSE IF SignatureVerifies(header, MatchingKey(keys, header.kid[1])[1]) # "ok"
    THEN Invalid(ReasonOf(SignatureVerifies(header, MatchingKey(keys, header.kid[1])[1])))
    ELSE IF ClaimsVerify(claims, issuer, RESOURCE_AUDIENCE, t) # "ok"
    THEN Invalid(ReasonOf(ClaimsVerify(claims, issuer, RESOURCE_AUDIENCE, t)))
    ELSE IF TenantFailure(claims, required_tenant_id) # Nil
    THEN Invalid(TenantFailure(claims, required_tenant_id)[1])
    ELSE Verdict(TRUE, Nil, Some(claims))

\* is_token_valid (validator.py:59-112): the verdict, the caches after the
\* call and the requests made
is_token_valid(token, required_tenant_id, discovery, keys) ==
  IF token.text = ""
  THEN [verdict |-> Invalid("Token is empty."), oidc_config |-> oidc_config,
        jwks |-> jwks, gets |-> 0]
  ELSE LET j == get_jwks(jwks, oidc_config, discovery, keys) IN
       [verdict |-> IF j.error # Nil
                    THEN Invalid("Failed to get JWKS: " \o j.error[1])
                    ELSE ValidateWith(token, required_tenant_id, j.value[1],
                                      j.oidc_config[1].issuer, now),
        oidc_config |-> j.oidc_config, jwks |-> j.jwks, gets |-> j.gets]

IsTokenValid(token, required_tenant_id, discovery, keys) ==
  LET r == is_token_valid(token, required_tenant_id, discovery, keys) IN
  /\ lastValid' = r.verdict
  /\ lastRequired' = required_tenant_id
  /\ oidc_config' = r.oidc_config
  /\ jwks' = r.jwks
  /\ lastGets' = r.gets
  /\ UNCHANGED <<validations, fetched>>

\* threads that may be inside is_token_valid at the same time
NumValidations == 2

Validators == 1..NumValidations

\* a thread outside is_token_valid.  Inside, config is the value the call
\* got from get_oidc_config, fetched_config and fetched_keys are the answers
\* to the requests the call made, and cached_at_call tells whether both
\* globals were set when the call began
Idle ==
  [pc |-> "idle", config |-> Nil, fetched_config |-> Nil, fetched_keys |-> Nil,
   cached_at_call |-> FALSE]

\* answers to GET <jwks_uri> over the life of a validator process: a
\* RequestException, the key set of the server, and the key set the server
\* publishes under the same kid once its key file (app.py:40-42) is replaced
RotatedJwksAnswers == JwksAnswers \cup {Some(<<[kid |-> KID, key |-> "other_rsa"]>>)}

InitValidator ==
  /\ oidc_config = Nil
  /\ jwks = Nil
  /\ lastValid = NoVerdict
  /\ lastRequired = Nil
  /\ lastGets = 0
  /\ validations = [i \in Validators |-> Idle]
  /\ fetched = [config |-> {}, jwks |-> {}]

\* is_token_valid with a token that is not empty, up to the test of line 43
\* in get_jwks: a cached key set is returned (line 56)
ValidationBegin(i) ==
  /\ validations[i].pc = "idle"
  /\ validations' =
       [validations EXCEPT ![i] =
          [Idle EXCEPT !.cached_at_call = Cached(oidc_config) /\ Cached(jwks),
                       !.pc = IF Cached(jwks) THEN "return_jwks" ELSE "get_oidc_config"]]
  /\ UNCHANGED <<oidc_config, jwks, lastValid, lastRequired, lastGets, fetched>>

\* get_oidc_config, the test of line 27: a cached document is returned
\* (line 37), else the request of line 29 is sent
ValidationGetConfig(i) ==
  /\ validations[i].pc = "get_oidc_config"
  /\ validations' =
       [validations EXCEPT ![i].pc =
          IF Cached(oidc_config) THEN "return_oidc_config" ELSE "fetch_oidc_config"]
  /\ UNCHANGED <<oidc_config, jwks, lastValid, lastRequired, lastGets, fetched>>

\* lines 29-36: the answer to the request arrives; a document is assigned to
\* the global, a RequestException makes the call return its error
ValidationFetchConfig(i, discovery) ==
  /\ validations[i].pc = "fetch_oidc_config"
  /\ IF discovery = Nil
     THEN /\ validations' = [validations EXCEPT ![i] = Idle]
          /\ UNCHANGED <<oidc_config, fetched>>
     ELSE /\ oidc_config' = discovery
          /\ fetched' = [fetched EXCEPT !.config = @ \cup {discovery}]
          /\ validations' =
               [validations EXCEPT ![i].pc = "return_oidc_config",
                                   ![i].fetched_config = discovery]
  /\ UNCHANGED <<jwks, lastValid, lastRequired, lastGets>>

\* line 37 returns the global as it is now; lines 48-50 of get_jwks: a
\* document without jwks_uri makes the call return, else the request of line
\* 52 is sent
ValidationReturnConfig(i) ==
  /\ validations[i].pc = "return_oidc_config"
  /\ validations' =
       [validations EXCEPT ![i] =
          IF oidc_config[1].jwks_uri = Nil THEN Idle
          ELSE [@ EXCEPT !.config = oidc_config, !.pc = "fetch_jwks"]]
  /\ UNCHANGED <<oidc_config, jwks, lastValid, lastRequired, lastGets, fetched>>

\* lines 52-55: the answer to the second request arrives; a key set is
\* assigned to the global, a RequestException makes the call return its error
ValidationFetchJwks(i, keys) ==
  /\ validations[i].pc = "fetch_jwks"
  /\ IF keys = Nil
     THEN /\ validations' = [validations EXCEPT ![i] = Idle]
          /\ UNCHANGED <<jwks, fetched>>
     ELSE /\ jwks' = keys
          /\ fetched' = [fetched EXCEPT !.jwks = @ \cup {keys}]
          /\ validations' =
               [validations EXCEPT ![i].pc = "return_jwks", ![i].fetched_keys = keys]
  /\ UNCHANGED <<oidc_config, lastValid, lastRequired, lastGets>>

\* line 56 returns the global as it is now; is_token_valid goes on with
\* that key set (lines 71-112), which touches neither global, and returns
ValidationReturnJwks(i) ==
  /\ validations[i].pc = "return_jwks"
  /\ validations' = [validations EXCEPT ![i] = Idle]
  /\ UNCHANGED <<oidc_config, jwks, lastValid, lastRequired, lastGets, fetched>>

(***************************************************************************)
(* The router (host_agent/routing_agent.py).                               *)
(***************************************************************************)
\* cards the registry may hand to the router at start-up
MaxCards == 2
\* skills of one card
MaxSkills == 1
\* tags of one skill
MaxTags == 2
\* tasks created over one run
MaxTasks == 1

VARIABLES
  cards,          \* self.cards: the registered cards, in dict (insertion) order
  state,          \* the session state (tool_context.state)
  tasks,          \* the persistent task store: task id -> task
  nextTask,       \* the next value uuid.uuid4() yields (never repeats)
  units,          \* the background dispatch units: task id -> unit
  redirected,     \* ids of the tasks answered with the OAuth reply
  lastReturn,     \* what send_message returned (or raised) last
  found,          \* the result of the last call of _find_agent_card_by_type on its own
  cb,             \* the /callback request in flight
  asyncio_bound,  \* whether the name asyncio resolves in routing_agent.py
  lastStatus      \* what get_task_status returned (or raised) last

routerVars == <<cards, state, tasks, nextTask, units, redirected, lastReturn,
                found, cb, asyncio_bound, lastStatus>>

vars == <<idpVars, routerVars, validatorVars>>

(***************************************************************************)
(* Cards.  A tag is the sequence of the parts tag.split(":", 1) yields:    *)
(* <<key, value>>, or <<word>> for a tag without a colon.                  *)
(***************************************************************************)
Tags == { <<"type", "weather">>, <<"type", "horizon">>, <<"tenant_id", "tenant-abc">> }

Card(name, skills, security) == [name |-> name, skills |-> skills, security |-> security]

\* _async_init_components (routing_agent.py:106-118): self.cards[card.name] =
\* card keeps the position of the first card of a name and the value of the
\* last one
RECURSIVE RegisterCards(_, _)
RegisterCards(registered, agent_cards) ==
  IF agent_cards = <<>> THEN registered
  ELSE LET card == Head(agent_cards)
           at == {i \in 1..Len(registered) : registered[i].name = card.name}
       IN RegisterCards(
            IF at = {} THEN Append(registered, card)
            ELSE [i \in 1..Len(registered) |-> IF i \in at THEN card ELSE registered[i]],
            Tail(agent_cards))

\* lines 345-349: the dict built from a skill's tags; a later tag replaces an
\* earlier one that has the same key, a tag without a colon is skipped
SkillTagsDict(tags) ==
  LET keyed == {i \in 1..Len(tags) : Len(tags[i]) = 2} IN
  [k \in {tags[i][1] : i \in keyed} |->
     LET last == CHOOSE i \in keyed :
                   /\ tags[i][1] = k
                   /\ \A j \in keyed : tags[j][1] = k => j <= i
     IN tags[last][2]]

tenant_specific_agentsNone == {}

\* line 327
tenant_specific_agents == {"horizon"}

FilterQueryWithoutTenant(agent_type, tenant_id) ==
  [k \in {"type"} |-> agent_type]

\* lines 323-333, for a request that has passed the tenant check
FilterQuery(agent_type, tenant_id) ==
  IF agent_type \in tenant_specific_agents
  THEN [k \in {"type", "tenant_id"} |-> IF k = "type" THEN agent_type ELSE tenant_id[1]]
  ELSE [k \in {"type"} |-> agent_type]

\* line 354: filter_query.items() <= skill_tags_dict.items()
ItemsSubset(filter_query, skill_tags_dict) ==
  \A k \in DOMAIN filter_query :
     k \in DOMAIN skill_tags_dict /\ skill_tags_dict[k] = filter_query[k]

\* lines 338-355: the card has a skill whose tags match
CardMatches(card, filter_query) ==
  \E s \in 1..Len(card.skills) :
     /\ card.skills[s] # <<>>
     /\ ItemsSubset(filter_query, SkillTagsDict(card.skills[s]))

\* _find_agent_card_by_type (routing_agent.py:311-356)
_find_agent_card_by_type(registered, agent_type, st) ==
  IF agent_type \in tenant_specific_agents /\ st.tenant_id = Nil
  THEN Nil
  ELSE LET filter_query == FilterQuery(agent_type, st.tenant_id)
           hits == {i \in 1..Len(registered) : CardMatches(registered[i], filter_query)}
       IN IF hits = {} THEN Nil
          ELSE Some(registered[CHOOSE i \in hits : \A j \in hits : i <= j])

(***************************************************************************)
(* The persistent task store (host_agent/persistent_task_store.py).        *)
(***************************************************************************)
NewTask(id, context_id, text) ==
  [id |-> id, context_id |-> context_id, request |-> text,
   state |-> "submitted", remote_task_id |-> Nil, message |-> Nil]

\* save(task): insert or replace by id
save(store, task) == DictSet(store, task.id, task)

\* get(id) -> Task | None
get(store, id) == DictGet(store, id)

\* set_remote_task_id(id, remote_id): also advances the state to working
set_remote_task_id(store, id, remote_id) ==
  IF id \in DOMAIN store
  THEN [store EXCEPT ![id].remote_task_id = Some(remote_id), ![id].state = "working"]
  ELSE store

\* task_failed(id, message): advances the state to failed, records the message
task_failed(store, id, message) ==
  IF id \in DOMAIN store
  THEN [store EXCEPT ![id].state = "failed", ![id].message = Some(message)]
  ELSE store

(***************************************************************************)
(* send_message (routing_agent.py:394-479)                                 *)
(***************************************************************************)
AgentTypes == {"weather", "horizon", "calendar"}
AUTH_URI == "http://localhost:5000/authorize"

\* json.dumps and json.loads on the state parameter: a text is JSON or not
JsonDumps(obj) == <<"json", obj>>
JsonLoads(text) == IF text[1] = "json" THEN Some(text[2]) ELSE Nil

\* f"Bearer {access_token}" (line 469)
Bearer(access_token) == <<"Bearer", access_token>>

initiate_oauth_flowWithoutTask(agent_name, security_details, task_id) ==
  [redirect_url |-> Some([auth_uri |-> AUTH_URI,
                          response_type |-> "code",
                          client_id |-> agent_name,
                          redirect_uri |-> CALLBACK_URI,
                          scope |-> <<"openid", "profile", "email", "api:read">>,
                          state |-> JsonDumps([task_id |-> Nil])]),
   task_id |-> Nil,
   error |-> Nil]

\* initiate_oauth_flow (routing_agent.py:277-309); REDIRECT_URI has its default
initiate_oauth_flow(agent_name, security_details, task_id) ==
  IF security_details.authorization_uri = Nil
  THEN [redirect_url |-> Nil, task_id |-> Nil,
        error |-> Some("Authorization URI not found in security details.")]
  ELSE [redirect_url |-> Some([auth_uri |-> security_details.authorization_uri[1],
                               response_type |-> "code",
                               client_id |-> agent_name,
                               redirect_uri |-> CALLBACK_URI,
                               scope |-> <<"openid", "profile", "email", "api:read">>,
                               state |-> JsonDumps([task_id |-> Some(task_id)])]),
        task_id |-> Some(task_id),
        error |-> Nil]

NeedsOAuthNever(card, access_token) == FALSE

\* line 448: found_card.security and not access_token
NeedsOAuth(card, access_token) == card.security # Nil /\ access_token = Nil

\* lines 467-469
Headers(access_token) == IF access_token # Nil THEN Some(Bearer(access_token[1])) ELSE Nil

Return(kind, agent, task_id, payload) ==
  [kind |-> kind, agent |-> agent, task_id |-> task_id, payload |-> payload]

NoPayload == [redirect_url |-> Nil, task_id |-> Nil, error |-> Nil]

NewUnit(agent_name, authorization) ==
  [pc |-> "spawned", agent_name |-> agent_name, authorization |-> authorization,
   sends |-> <<>>, reply |-> Nil]

SendMessage(agent_type) ==
  LET found_card == _find_agent_card_by_type(cards, agent_type, state) IN
  /\ IF found_card = Nil
     THEN /\ lastReturn' = Return("not_found", Nil, Nil, NoPayload)
          /\ UNCHANGED <<state, tasks, nextTask, units, redirected>>
     ELSE
       LET card == found_card[1]
           task_id == nextTask
           context_id == IF state.context_id # Nil THEN state.context_id[1] ELSE task_id
           access_token == state.access_token
       IN
       /\ nextTask <= MaxTasks
       /\ nextTask' = nextTask + 1
       /\ tasks' = save(tasks, NewTask(task_id, context_id, "task text"))
       /\ IF NeedsOAuth(card, access_token)
          THEN /\ lastReturn' = Return("oauth", Some(card.name), Some(task_id),
                                       initiate_oauth_flow(card.name, card.security[1], task_id))
               /\ state' = [state EXCEPT !.context_id = Some(context_id)]
               /\ redirected' = redirected \cup {task_id}
               /\ UNCHANGED units
          ELSE /\ state' = [state EXCEPT !.context_id = Some(context_id),
                                         !.active_agent = Some(card.name)]
               /\ UNCHANGED redirected
               /\ IF asyncio_bound
                  THEN /\ units' = DictSet(units, task_id,
                                           NewUnit(card.name, Headers(access_token)))
                       /\ lastReturn' = Return("confirmation", Some(card.name),
                                               Some(task_id), NoPayload)
                  ELSE \* line 472 raises NameError: asyncio is not imported
                       /\ lastReturn' = Return("NameError", Some(card.name),
                                               Some(task_id), NoPayload)
                       /\ UNCHANGED units
  /\ UNCHANGED <<cards, found, cb, asyncio_bound, lastStatus>>

(***************************************************************************)
(* _send_message_and_process_response (routing_agent.py:358-392): one      *)
(* background unit.  The answer of the remote agent is an input.           *)
(***************************************************************************)
RemoteOutcomes == {"task", "message", "error_expired", "error_other", "exception", "hang"}

\* self.remote_agent_connections has one entry per registered card
HasConnection(agent_name) == \E i \in 1..Len(cards) : cards[i].name = agent_name

IsTaskAnswerAlways(outcome) == TRUE

\* lines 377-379: the answer is a SendMessageSuccessResponse whose result is a Task
IsTaskAnswer(outcome) == outcome = "task"

Dispatch(t, outcome) ==
  /\ t \in DOMAIN units
  /\ units[t].pc = "spawned"
  /\ IF ~HasConnection(units[t].agent_name)
     THEN /\ units' = [units EXCEPT ![t].pc = "done"]
          /\ UNCHANGED tasks
     ELSE LET sent == [units[t] EXCEPT
                         !.sends = Append(@, [agent_name |-> units[t].agent_name,
                                              authorization |-> units[t].authorization]),
                         !.reply = Some(outcome)]
          IN
          IF outcome = "exception"
          THEN /\ units' = [units EXCEPT ![t] = [sent EXCEPT !.pc = "raised"]]
               /\ UNCHANGED tasks
          ELSE IF outcome = "hang"
          THEN /\ units' = [units EXCEPT ![t] = [sent EXCEPT !.pc = "waiting"]]
               /\ UNCHANGED tasks
          ELSE /\ units' = [units EXCEPT ![t] = [sent EXCEPT !.pc = "done"]]
               /\ tasks' = IF IsTaskAnswer(outcome)
                           THEN set_remote_task_id(tasks, t, "remote-task")
                           ELSE task_failed(tasks, t, "Failed to send message")
  /\ UNCHANGED <<cards, state, nextTask, redirected, lastReturn, found, cb, asyncio_bound, lastStatus>>

(***************************************************************************)
(* get_task_status (routing_agent.py:246-275).  What the remote agent      *)
(* answers to get_task is an input: no task, or the live state of the task. *)
(***************************************************************************)
RemoteTasks == {Nil, Some("working"), Some("completed")}

Status(kind, st) == [kind |-> kind, state |-> st]

NoStatus == Status("none", Nil)

\* line 263 reads task.request.context.  The request of a stored task is the
\* Message send_message built (lines 432-436) from role, parts and messageId,
\* and nothing hands the name of the agent to the store: reading the
\* attribute raises AttributeError (Nil) or yields a context that has no
\* entry active_agent
RequestContexts == {Nil, Some(EmptyDict)}

get_task_status(store, task_id, context, remote_task) ==
  LET task == get(store, task_id) IN
  IF task = Nil THEN Status("not_found", Nil)
  ELSE IF task[1].remote_task_id = Nil THEN Status("status", Some(task[1].state))
  ELSE IF context = Nil THEN Status("AttributeError", Nil)
  ELSE LET agent_name == DictGet(context[1], "active_agent") IN
       IF agent_name = Nil THEN Status("no_agent", Nil)
       ELSE IF ~HasConnection(agent_name[1]) THEN Status("no_client", Nil)
       ELSE IF remote_task = Nil THEN Status("no_remote_task", Nil)
       ELSE Status("status", remote_task)

GetTaskStatus(task_id, context, remote_task) ==
  /\ lastStatus' = get_task_status(tasks, task_id, context, remote_task)
  /\ UNCHANGED <<cards, state, tasks, nextTask, units, redirected, lastReturn, found, cb,
                 asyncio_bound>>

(***************************************************************************)
(* handle_callback (host_agent/__main__.py:37-97).  The answer of the      *)
(* token endpoint is an input.  CallbackExchange runs lines 40-89,         *)
(* CallbackGet line 92 and CallbackSave lines 93-97.                       *)
(***************************************************************************)
CallbackCodes == {Nil, Some("code")}
CallbackStates ==
  {Nil, Some(<<"not json">>), Some(JsonDumps([task_id |-> Nil]))}
  \cup {Some(JsonDumps([task_id |-> Some(t)])) : t \in 1..MaxTasks}
\* answers of a token endpoint: a refusal, tokens without a refresh token (as
\* idp/app.py answers) and tokens with one
TokenResponses ==
  { [status |-> 400, access_token |-> Nil, refresh_token |-> Nil],
    [status |-> 200, access_token |-> Some("at-1"), refresh_token |-> Nil],
    [status |-> 200, access_token |-> Some("at-1"), refresh_token |-> Some("rt-1")] }

IdleCallback == [pc |-> "idle", task_id |-> Nil, task |-> Nil]

\* None when the request passes the checks of lines 42-52, else the error
CallbackRequestError(code, st) ==
  IF code = Nil \/ st = Nil THEN Some("Error: Missing code or state.")
  ELSE IF JsonLoads(st[1]) = Nil THEN Some("Error: Invalid state format.")
  ELSE IF JsonLoads(st[1])[1].task_id = Nil THEN Some("Error: task_id not in state.")
  ELSE Nil

ExchangeRefusedNever(token_response) == FALSE

\* line 67: token_response.status_code != 200
ExchangeRefused(token_response) == token_response.status # 200

\* lines 40-89 as a function of the request and of the token endpoint's
\* answer: the HTTP status returned early (or Nil), the state_delta of the
\* event appended to the session (or Nil) and the task to update (or Nil)
handle_callback(code, st, token_response) ==
  IF CallbackRequestError(code, st) # Nil
  THEN [status |-> Some(400), state_delta |-> Nil, task_id |-> Nil]
  ELSE IF ExchangeRefused(token_response)
  THEN [status |-> Some(400), state_delta |-> Nil, task_id |-> Nil]
  ELSE [status |-> Nil,
        state_delta |-> Some([access_token |-> token_response.access_token,
                              refresh_token |-> token_response.refresh_token]),
        task_id |-> JsonLoads(st[1])[1].task_id]

CallbackExchange(code, st, token_response) ==
  LET answer == handle_callback(code, st, token_response) IN
  /\ cb.pc = "idle"
  /\ IF answer.state_delta = Nil
     THEN UNCHANGED <<state, cb>>
     ELSE /\ state' = [state EXCEPT !.access_token = answer.state_delta[1].access_token,
                                    !.refresh_token = answer.state_delta[1].refresh_token]
          /\ cb' = [pc |-> "exchanged", task_id |-> answer.task_id, task |-> Nil]
  /\ UNCHANGED <<cards, tasks, nextTask, units, redirected, lastReturn, found,
                 asyncio_bound, lastStatus>>

CallbackGet ==
  /\ cb.pc = "exchanged"
  /\ cb' = [cb EXCEPT !.pc = "loaded", !.task = get(tasks, cb.task_id[1])]
  /\ UNCHANGED <<cards, state, tasks, nextTask, units, redirected, lastReturn, found,
                 asyncio_bound, lastStatus>>

MarkFailed(task) == [task EXCEPT !.state = "failed"]

\* line 94: task.status.state = TaskState.working
MarkWorking(task) == [task EXCEPT !.state = "working"]

CallbackSave ==
  /\ cb.pc = "loaded"
  /\ tasks' = IF cb.task # Nil
              THEN save(tasks, MarkWorking(cb.task[1]))
              ELSE tasks
  /\ cb' = IdleCallback
  /\ UNCHANGED <<cards, state, nextTask, units, redirected, lastReturn, found,
                 asyncio_bound, lastStatus>>

(***************************************************************************)
(* Start-up of the router.                                                 *)
(***************************************************************************)
SECURITY == Some([authorization_uri |-> Some(AUTH_URI)])
\* a security block that names no authorization_uri
SECURITY_NO_URI == Some([authorization_uri |-> Nil])

\* the cards of the deployment: the two of test_routing_agent.py (lines
\* 32-67) and a second tenant's agent
DeployedCards ==
  << Card("Weather Agent", << << <<"type", "weather">> >> >>, Nil),
     Card("Horizon Agent - Tenant ABC",
          << << <<"type", "horizon">>, <<"tenant_id", "tenant-abc">> >> >>, SECURITY),
     Card("Horizon Agent - Tenant XYZ",
          << << <<"type", "horizon">>, <<"tenant_id", "tenant-xyz">> >> >>, SECURITY_NO_URI) >>

TenantIds == {Nil, Some("tenant-abc"), Some("tenant-xyz")}

InitState(tenant_id) ==
  [tenant_id |-> tenant_id, access_token |-> Nil, refresh_token |-> Nil,
   context_id |-> Nil, active_agent |-> Nil]

InitRouterWith(agent_cards, tenant_id, bound) ==
  /\ cards = RegisterCards(<<>>, agent_cards)
  /\ state = InitState(tenant_id)
  /\ tasks = EmptyDict
  /\ nextTask = 1
  /\ units = EmptyDict
  /\ redirected = {}
  /\ lastReturn = Return("none", Nil, Nil, NoPayload)
  /\ found = Nil
  /\ cb = IdleCallback
  /\ asyncio_bound = bound
  /\ lastStatus = NoStatus

(***************************************************************************)
(* The authorization server on its own.                                    *)
(***************************************************************************)
InitIdp ==
  /\ now = 0
  /\ session = EmptyDict
  /\ AUTHORIZATION_CODES = EmptyDict
  /\ nextCode = 1
  /\ treq = [r \in Reqs |-> IdleReq]
  /\ lastResp = NoResponse
  /\ issued = [c \in Codes |-> 0]

Init == InitIdp /\ InitValidator /\ InitRouterWith(DeployedCards, Nil, TRUE)

NextIdp ==
  \/ (\E args \in AuthorizeArgs : AuthorizeGet(args)) /\ UNCHANGED <<routerVars, validatorVars>>
  \/ (\E u \in Usernames, pw \in Passwords : AuthorizePost(u, pw)) /\ UNCHANGED <<routerVars, validatorVars>>
  \/ (\E c \in {"true", "false"} : Consent(c)) /\ UNCHANGED <<routerVars, validatorVars>>
  \/ (\E p \in TokenRequests : Presentable(p) /\ GenerateToken(p)) /\ UNCHANGED <<routerVars, validatorVars>>
  \/ Tick /\ UNCHANGED <<routerVars, validatorVars>>

SpecIdp == Init /\ [][NextIdp]_vars

(***************************************************************************)
(* The authorization server with token requests served concurrently.       *)
(***************************************************************************)
ConcurrentAuthorizeArgs ==
  {a \in AuthorizeArgs : a.client_id \in DOMAIN CLIENT_REGISTRY /\ a.response_type = "code"}

ConcurrentTokenRequests ==
  {p \in AuthorizationCodeRequests :
     /\ p.basic = Nil
     /\ p.client_id = Some("Horizon Agent - Tenant ABC")
     /\ p.code # Some(0)
     /\ p.code_verifier # Some("verifier-2")}

NextIdpConcurrent ==
  \/ (\E args \in ConcurrentAuthorizeArgs : AuthorizeGet(args)) /\ UNCHANGED <<routerVars, validatorVars>>
  \/ (\E u \in {"john.doe"}, pw \in Passwords : AuthorizePost(u, pw)) /\ UNCHANGED <<routerVars, validatorVars>>
  \/ Consent("true") /\ UNCHANGED <<routerVars, validatorVars>>
  \/ (\E r \in Reqs, p \in ConcurrentTokenRequests : Presentable(p) /\ TokenBegin(r, p))
       /\ UNCHANGED <<routerVars, validatorVars>>
  \/ (\E r \in Reqs : TokenFinish(r)) /\ UNCHANGED <<routerVars, validatorVars>>
  \/ Tick /\ UNCHANGED <<routerVars, validatorVars>>

SpecIdpConcurrent == Init /\ [][NextIdpConcurrent]_vars

(***************************************************************************)
(* The authorization server with two users, two scope requests and token   *)
(* requests that differ in every field.                                    *)
(***************************************************************************)
UserAuthorizeArgs ==
  [client_id : {"Horizon Agent - Tenant ABC"}, redirect_uri : {CALLBACK_URI},
   response_type : {"code"}, scope : {<<"openid", "api:read">>, <<"openid">>},
   state : {Some("st-1")}, code_challenge : Challenges]

UserTokenRequests ==
  {TokenParams(cr, "authorization_code", scope, c, Some(u), v) :
     cr \in FormCredentials, scope \in {<<"api:write">>},
     c \in PresentedCodes \ {Some(0)},
     u \in {DEV_UI_URI, CALLBACK_URI}, v \in {Nil, Some("verifier-1")}}

NextIdpUsers ==
  \/ (\E args \in UserAuthorizeArgs : AuthorizeGet(args)) /\ UNCHANGED <<routerVars, validatorVars>>
  \/ (\E u \in DOMAIN USER_REGISTRY, pw \in Passwords : AuthorizePost(u, pw))
       /\ UNCHANGED <<routerVars, validatorVars>>
  \/ (\E c \in {"true", "false"} : Consent(c)) /\ UNCHANGED <<routerVars, validatorVars>>
  \/ (\E p \in UserTokenRequests : Presentable(p) /\ GenerateToken(p))
       /\ UNCHANGED <<routerVars, validatorVars>>
  \/ Tick /\ UNCHANGED <<routerVars, validatorVars>>

SpecIdpUsers == Init /\ [][NextIdpUsers]_vars

(***************************************************************************)
(* The authorization server under token requests of every grant type, with *)
(* every way of presenting credentials and a range of scope parameters.    *)
(* A scope parameter with two adjacent spaces has an empty part.           *)
(***************************************************************************)
GrantScopes ==
  { <<>>, <<"api:read">>, <<"api:read", "openid">>, <<"api:write">>,
    <<"api:read", "api:write">>, <<"api:read", "", "openid">> }

GrantTypes == {"client_credentials", "authorization_code", "refresh_token"}

GrantRequests ==
  {TokenParams(cr, "client_credentials", scope, Nil, Some(CALLBACK_URI), Nil) :
     cr \in Credentials, scope \in GrantScopes}
  \cup
  {TokenParams(cr, g, <<"api:read">>, c, Some(CALLBACK_URI), Nil) :
     cr \in Credentials, g \in GrantTypes,
     c \in {Nil} \cup (PresentedCodes \ {Some(0)})}

\* requests of the registered client at its registered URI, for scopes the
\* client is allowed and for one it is not
GrantAuthorizeArgs ==
  [client_id : {"Horizon Agent - Tenant ABC"}, redirect_uri : {CALLBACK_URI},
   response_type : {"code"}, scope : {<<"openid", "api:read">>, <<"api:write">>},
   state : {Some("st-1")}, code_challenge : {Nil}]

NextIdpGrants ==
  \/ (\E args \in GrantAuthorizeArgs : AuthorizeGet(args)) /\ UNCHANGED <<routerVars, validatorVars>>
  \/ AuthorizePost("john.doe", "password123") /\ UNCHANGED <<routerVars, validatorVars>>
  \/ Consent("true") /\ UNCHANGED <<routerVars, validatorVars>>
  \/ (\E p \in GrantRequests : Presentable(p) /\ GenerateToken(p))
       /\ UNCHANGED <<routerVars, validatorVars>>
  \/ Tick /\ UNCHANGED <<routerVars, validatorVars>>

SpecIdpGrants == Init /\ [][NextIdpGrants]_vars

(***************************************************************************)
(* The router with its background units and the OAuth callback.            *)
(***************************************************************************)
InitRouter ==
  /\ InitIdp
  /\ InitValidator
  /\ \E tenant_id \in TenantIds, bound \in BOOLEAN :
        InitRouterWith(DeployedCards, tenant_id, bound)

NextRouter ==
  \/ (\E agent_type \in AgentTypes : SendMessage(agent_type)) /\ UNCHANGED <<idpVars, validatorVars>>
  \/ (\E t \in 1..MaxTasks, outcome \in RemoteOutcomes : Dispatch(t, outcome))
       /\ UNCHANGED <<idpVars, validatorVars>>
  \/ (\E code \in CallbackCodes, st \in CallbackStates, resp \in TokenResponses :
        CallbackExchange(code, st, resp)) /\ UNCHANGED <<idpVars, validatorVars>>
  \/ CallbackGet /\ UNCHANGED <<idpVars, validatorVars>>
  \/ CallbackSave /\ UNCHANGED <<idpVars, validatorVars>>

SpecRouter == InitRouter /\ [][NextRouter]_vars

(***************************************************************************)
(* Agent resolution over the card lists a registry can supply.             *)
(***************************************************************************)
SeqsUpTo(S, n) == UNION {[1..k -> S] : k \in 0..n}

NameOf(i) ==
  CASE i = 1 -> "card-1" [] i = 2 -> "card-2" [] i = 3 -> "card-3" [] OTHER -> "card-n"

TagLists == SeqsUpTo(Tags, MaxTags)
SkillLists == SeqsUpTo(TagLists, MaxSkills)

\* the skills of the deployed cards
ReferenceSkills == {DeployedCards[i].skills : i \in 1..Len(DeployedCards)}

\* a list of k cards that have distinct names: the card at position at has
\* the given skills over Tags, the others have the skills of deployed cards
CardList(k, at, skills, others) ==
  [i \in 1..k |-> Card(NameOf(i), IF i = at THEN skills ELSE others[i], Nil)]

Resolve(agent_type) ==
  /\ found' = _find_agent_card_by_type(cards, agent_type, state)
  /\ UNCHANGED <<cards, state, tasks, nextTask, units, redirected, lastReturn, cb, asyncio_bound, lastStatus>>

InitResolve ==
  /\ InitIdp
  /\ InitValidator
  /\ \E k \in 0..MaxCards, tenant_id \in TenantIds :
        IF k = 0
        THEN InitRouterWith(<<>>, tenant_id, TRUE)
        ELSE \E at \in 1..k, skills \in SkillLists, others \in [1..k -> ReferenceSkills] :
                InitRouterWith(CardList(k, at, skills, others), tenant_id, TRUE)

NextResolve ==
  \/ (\E agent_type \in AgentTypes : Resolve(agent_type)) /\ UNCHANGED <<idpVars, validatorVars>>

SpecResolve == InitResolve /\ [][NextResolve]_vars

(***************************************************************************)
(* The token validator on its own.  The answers of the server to the two   *)
(* fetches are inputs; they are consulted only when the cache is empty.    *)
(***************************************************************************)
NextValidator ==
  \/ (\E token \in Tokens, required_tenant_id \in RequiredTenantIds,
         discovery \in (IF oidc_config = Nil THEN DiscoveryAnswers ELSE {Nil}),
         keys \in (IF jwks = Nil THEN JwksAnswers ELSE {Nil}) :
        IsTokenValid(token, required_tenant_id, discovery, keys))
       /\ UNCHANGED <<idpVars, routerVars>>
  \/ Tick /\ UNCHANGED <<routerVars, validatorVars>>

SpecValidator == Init /\ [][NextValidator]_vars

(***************************************************************************)
(* The validator called from several threads.  Every read and every        *)
(* assignment of a global is a step, and a request is answered in the step *)
(* that assigns its result.                                                *)
(***************************************************************************)
NextValidatorConcurrent ==
  \/ (\E i \in Validators : ValidationBegin(i)) /\ UNCHANGED <<idpVars, routerVars>>
  \/ (\E i \in Validators : ValidationGetConfig(i)) /\ UNCHANGED <<idpVars, routerVars>>
  \/ (\E i \in Validators, discovery \in DiscoveryAnswers :
        ValidationFetchConfig(i, discovery)) /\ UNCHANGED <<idpVars, routerVars>>
  \/ (\E i \in Validators : ValidationReturnConfig(i)) /\ UNCHANGED <<idpVars, routerVars>>
  \/ (\E i \in Validators, keys \in RotatedJwksAnswers :
        ValidationFetchJwks(i, keys)) /\ UNCHANGED <<idpVars, routerVars>>
  \/ (\E i \in Validators : ValidationReturnJwks(i)) /\ UNCHANGED <<idpVars, routerVars>>

SpecValidatorConcurrent == Init /\ [][NextValidatorConcurrent]_vars

(***************************************************************************)
(* The authorization server and the validator together: a token the server *)
(* answered with is presented to is_token_valid.  Both read the same        *)
(* clock, and time runs past the expiry of the tokens.                      *)
(***************************************************************************)
IssueAuthorizeArgs ==
  [client_id : {"Horizon Agent - Tenant ABC"}, redirect_uri : {CALLBACK_URI},
   response_type : {"code", "token id_token"}, scope : {<<"openid", "api:read">>},
   state : {Some("st-1")}, code_challenge : {Nil}]

IssueTokenRequests ==
  {TokenParams(<<Nil, <<Some("Horizon Agent - Tenant ABC"), Some("horizon_secret_abc")>> >>,
               "authorization_code", <<>>, c, Some(CALLBACK_URI), Nil) :
     c \in PresentedCodes \ {Some(0)}}
  \cup
  {TokenParams(<<Nil, <<Some("Horizon Agent - Tenant ABC"), Some("horizon_secret_abc")>> >>,
               "client_credentials", <<"api:read">>, Nil, Nil, Nil)}

\* the instants at which the clock is observed: the start, the last
\* instant before a token minted at the start expires, and the instant at
\* which it expires
ValidationTimePoints == {0, TOKEN_TTL - 1, TOKEN_TTL}

TickValidation ==
  /\ \E t \in ValidationTimePoints : t > now /\ now' = t
  /\ UNCHANGED <<session, AUTHORIZATION_CODES, nextCode, treq, lastResp, issued>>

\* jwt.encode (app.py:143) followed by the parse of validator.py:72 and
\* 85-92: the header and the claims the validator reads, each present
Presented(access_token) ==
  [text |-> "header.payload.signature",
   jwt |-> Some([kid |-> Some(access_token.kid), alg |-> access_token.alg,
                 key |-> access_token.key,
                 payload |-> [iss |-> Some(access_token.payload.iss),
                              aud |-> Some(access_token.payload.aud),
                              sub |-> access_token.payload.sub,
                              exp |-> Some(access_token.payload.exp),
                              tenant_id |-> access_token.payload.tenant_id]])]

\* the discovery document of the server (app.py:79-96)
ServedDiscovery == {d \in DiscoveryAnswers : d # Nil /\ d[1].jwks_uri # Nil}

\* the key set of the server (app.py:140)
ServedJwks == JwksAnswers \ {Nil}

IssuedTenantIds == {Nil} \cup {Some(USER_REGISTRY[u].tenant_id) : u \in DOMAIN USER_REGISTRY}

\* the caller presents the access token of the last answer
ValidateIssued(required_tenant_id, discovery, keys) ==
  /\ lastResp.access_token # Nil
  /\ IsTokenValid(Presented(lastResp.access_token[1]), required_tenant_id, discovery, keys)

NextIssueAndValidate ==
  \/ (\E args \in IssueAuthorizeArgs : AuthorizeGet(args)) /\ UNCHANGED <<routerVars, validatorVars>>
  \/ (\E u \in DOMAIN USER_REGISTRY : AuthorizePost(u, "password123"))
       /\ UNCHANGED <<routerVars, validatorVars>>
  \/ Consent("true") /\ UNCHANGED <<routerVars, validatorVars>>
  \/ (\E p \in IssueTokenRequests : Presentable(p) /\ GenerateToken(p))
       /\ UNCHANGED <<routerVars, validatorVars>>
  \/ TickValidation /\ UNCHANGED <<routerVars, validatorVars>>
  \/ (\E required_tenant_id \in IssuedTenantIds,
         discovery \in (IF oidc_config = Nil THEN ServedDiscovery ELSE {Nil}),
         keys \in (IF jwks = Nil THEN ServedJwks ELSE {Nil}) :
        ValidateIssued(required_tenant_id, discovery, keys))
       /\ UNCHANGED <<idpVars, routerVars>>

SpecIssueAndValidate == Init /\ [][NextIssueAndValidate]_vars

(***************************************************************************)
(* The router, the browser and the authorization server together: the      *)
(* browser follows the redirect the router returns, logs in, decides, and  *)
(* follows the redirect of /consent to the router's callback, which        *)
(* exchanges the code at /generate-token.  Time does not pass.             *)
(***************************************************************************)
\* the deployed cards with a secured card whose name is the registered
\* client "Calendar Agent"
FlowCards ==
  << Card("Weather Agent", << << <<"type", "weather">> >> >>, Nil),
     Card("Horizon Agent - Tenant ABC",
          << << <<"type", "horizon">>, <<"tenant_id", "tenant-abc">> >> >>, SECURITY),
     Card("Calendar Agent", << << <<"type", "calendar">> >> >>, SECURITY) >>

InitFlow ==
  /\ InitIdp
  /\ InitValidator
  /\ \E bound \in BOOLEAN : InitRouterWith(FlowCards, Some("tenant-abc"), bound)

\* the browser requests the redirect_url send_message returned
\* (routing_agent.py:299-309)
FollowOAuthRedirect ==
  /\ lastReturn.kind = "oauth"
  /\ lastReturn.payload.redirect_url # Nil
  /\ LET url == lastReturn.payload.redirect_url[1] IN
     AuthorizeGet([client_id |-> url.client_id, redirect_uri |-> url.redirect_uri,
                   response_type |-> url.response_type, scope |-> url.scope,
                   state |-> Some(url.state), code_challenge |-> Nil])

\* the form of the callback's token request (__main__.py:55-65)
CallbackTokenRequest(code) ==
  TokenParams(<<Nil, <<Some("Horizon Agent - Tenant ABC"), Some("horizon_secret_abc")>> >>,
              "authorization_code", <<>>, code, Some(CALLBACK_URI), Nil)

TokenDataWithRefreshToken(resp) ==
  [status |-> resp.status, access_token |-> resp.access_token,
   refresh_token |-> Some("rt-1")]

\* what the callback reads of the answer of /generate-token: status_code,
\* and of the JSON body (app.py:372-379, 466-474, which has no refresh_token
\* key) .get("access_token") and .get("refresh_token")
TokenData(resp) ==
  [status |-> resp.status, access_token |-> resp.access_token, refresh_token |-> Nil]

\* the browser follows the redirect of /consent to GET /callback; the
\* callback posts the code to /generate-token unless the request is refused
\* before (lines 42-52)
FlowCallback ==
  /\ lastResp.ep = "consent"
  /\ lastResp.redirect # Nil
  /\ lastResp.redirect[1].uri = CALLBACK_URI
  /\ LET code == lastResp.redirect[1].code
         st == lastResp.redirect[1].state
         p == CallbackTokenRequest(code)
     IN IF CallbackRequestError(code, st) # Nil
        THEN /\ CallbackExchange(code, st, TokenData(lastResp))
             /\ UNCHANGED idpVars
        ELSE /\ GenerateToken(p)
             /\ CallbackExchange(code, st, TokenData(TokenResponse(p)))

\* a token request with grant_type=refresh_token, from a client with or
\* without the right secret
RefreshRequests ==
  {TokenParams(cr, "refresh_token", <<>>, Nil, Nil, Nil) : cr \in Credentials}

NextFlow ==
  \/ (\E agent_type \in {"horizon", "calendar"} : SendMessage(agent_type))
       /\ UNCHANGED <<idpVars, validatorVars>>
  \/ FollowOAuthRedirect /\ UNCHANGED <<routerVars, validatorVars>>
  \/ AuthorizePost("john.doe", "password123") /\ UNCHANGED <<routerVars, validatorVars>>
  \/ (\E c \in {"true", "false"} : Consent(c)) /\ UNCHANGED <<routerVars, validatorVars>>
  \/ FlowCallback /\ UNCHANGED validatorVars
  \/ CallbackGet /\ UNCHANGED <<idpVars, validatorVars>>
  \/ CallbackSave /\ UNCHANGED <<idpVars, validatorVars>>
  \/ (\E p \in RefreshRequests : GenerateToken(p)) /\ UNCHANGED <<routerVars, validatorVars>>

SpecFlow == InitFlow /\ [][NextFlow]_vars

(***************************************************************************)
(* The router's dispatches followed by status queries.                     *)
(***************************************************************************)
NextStatus ==
  \/ (\E agent_type \in AgentTypes : SendMessage(agent_type)) /\ UNCHANGED <<idpVars, validatorVars>>
  \/ (\E t \in 1..MaxTasks, outcome \in RemoteOutcomes : Dispatch(t, outcome))
       /\ UNCHANGED <<idpVars, validatorVars>>
  \/ (\E task_id \in 1..(MaxTasks + 1), context \in RequestContexts, remote_task \in RemoteTasks :
        GetTaskStatus(task_id, context, remote_task)) /\ UNCHANGED <<idpVars, validatorVars>>

SpecStatus == InitRouter /\ [][NextStatus]_vars

(***************************************************************************)
(* Properties of the authorization server.                                 *)
(* An exchange is a /generate-token request with grant_type                *)
(* authorization_code from a client that authenticates; TokenResponse(p)   *)
(* is the answer the server gives to request p in the current state.       *)
(***************************************************************************)
Exchanges == {p \in AuthorizationCodeRequests : AuthenticatedClient(p) # Nil}

IsExchangeResponse(resp) ==
  /\ resp.req # Nil
  /\ resp.req[1].grant_type = "authorization_code"
  /\ resp.req[1].client_id # Nil

NoTokens(resp) == resp.access_token = Nil /\ resp.id_token = Nil

InvalidGrant(resp) ==
  resp.status = 400 /\ resp.error = "invalid_grant" /\ NoTokens(resp)

\* C1: once an exchange has succeeded for a code, every later exchange that
\* presents the code (whatever the client, redirect_uri or verifier) is
\* answered 400 invalid_grant without tokens, and no code yields tokens
\* more than once.
C1_CodeRedeemedAtMostOnce ==
  /\ \A c \in Codes : issued[c] <= 1
  /\ \A p \in Exchanges :
       (p.code[1] \in Codes /\ issued[p.code[1]] >= 1) => InvalidGrant(TokenResponse(p))
  /\ (/\ IsExchangeResponse(lastResp)
      /\ lastResp.req[1].code[1] \in Codes
      /\ issued[lastResp.req[1].code[1]] >= 1)
       => \/ lastResp.status = 200 /\ issued[lastResp.req[1].code[1]] = 1
          \/ InvalidGrant(lastResp)

\* a redeemed code was presented again and refused
C1_Replayed ==
  /\ IsExchangeResponse(lastResp)
  /\ lastResp.req[1].code[1] \in Codes
  /\ issued[lastResp.req[1].code[1]] = 1
  /\ InvalidGrant(lastResp)

\* C6: for a stored code that has a code_challenge, an otherwise valid
\* exchange (right client, right redirect_uri, not expired) is answered
\* invalid_request without a verifier, invalid_grant with a verifier whose
\* S256 digest differs from the challenge, and with tokens when the digest
\* equals the challenge; the code then is gone, so it succeeds once.
C6_PkceGate ==
  /\ \A p \in Exchanges :
       LET data == PopData(AUTHORIZATION_CODES, p.code)
           resp == TokenResponse(p)
       IN (/\ data # Nil
           /\ data[1].code_challenge # Nil
           /\ AuthenticatedClient(p) = Some(data[1].client_id)
           /\ p.redirect_uri = Some(data[1].redirect_uri)
           /\ now <= data[1].expires_at)
          => /\ p.code_verifier = Nil
                  => resp.status = 400 /\ resp.error = "invalid_request" /\ NoTokens(resp)
             /\ (p.code_verifier # Nil /\ S256(p.code_verifier[1]) # data[1].code_challenge[1])
                  => InvalidGrant(resp)
             /\ (p.code_verifier # Nil /\ S256(p.code_verifier[1]) = data[1].code_challenge[1])
                  => resp.status = 200 /\ resp.access_token # Nil /\ resp.id_token # Nil
  /\ \A c \in Codes :
       issued[c] <= 1 /\ (issued[c] = 1 => c \notin DOMAIN AUTHORIZATION_CODES)
  /\ (IsExchangeResponse(lastResp) /\ lastResp.req[1].pkce /\ lastResp.status = 200)
       => issued[lastResp.req[1].code[1]] = 1

\* a code bound to a challenge was exchanged for tokens
C6_PkceExchanged ==
  /\ IsExchangeResponse(lastResp)
  /\ lastResp.req[1].pkce
  /\ lastResp.status = 200
  /\ lastResp.access_token # Nil

\* C7: when exchanges that present the same code are served concurrently,
\* at most one of them obtains the stored grant, and so at most one
\* succeeds, under every interleaving.
C7_ConcurrentExchangeOnce ==
  \A c \in Codes :
    issued[c] + Cardinality({r \in Reqs : treq[r].pc = "popped"
                                           /\ treq[r].params[1].code = Some(c)}) <= 1

\* while one exchange held the grant of a code, another one that presented
\* the same code was refused
C7_RefusedWhileInFlight ==
  \E r \in Reqs :
    /\ treq[r].pc = "popped"
    /\ IsExchangeResponse(lastResp)
    /\ lastResp.req[1].code = treq[r].params[1].code
    /\ InvalidGrant(lastResp)

\* the reasons C8 names for refusing exchange p
CodeUnknown(p) == PopData(AUTHORIZATION_CODES, p.code) = Nil
RedirectDiffers(p) ==
  ~CodeUnknown(p) /\ p.redirect_uri # Some(PopData(AUTHORIZATION_CODES, p.code)[1].redirect_uri)
ClientDiffers(p) ==
  ~CodeUnknown(p)
  /\ AuthenticatedClient(p) # Some(PopData(AUTHORIZATION_CODES, p.code)[1].client_id)
CodeExpired(p) ==
  ~CodeUnknown(p) /\ now > PopData(AUTHORIZATION_CODES, p.code)[1].expires_at

RefusalReasons(p) ==
  {reason \in {"unknown", "redirect_uri", "client_id", "expired"} :
     \/ reason = "unknown" /\ CodeUnknown(p)
     \/ reason = "redirect_uri" /\ RedirectDiffers(p)
     \/ reason = "client_id" /\ ClientDiffers(p)
     \/ reason = "expired" /\ CodeExpired(p)}

\* C8 as stated: each of the four reasons leads to 400 invalid_grant, and
\* exchanges refused for different reasons get different error descriptions.
C8_FourDistinctErrors ==
  /\ \A p \in Exchanges : RefusalReasons(p) # {} => InvalidGrant(TokenResponse(p))
  /\ \A p, q \in Exchanges :
       (/\ Cardinality(RefusalReasons(p)) = 1
        /\ Cardinality(RefusalReasons(q)) = 1
        /\ RefusalReasons(p) # RefusalReasons(q))
         => TokenResponse(p).desc # TokenResponse(q).desc

\* C8 (amended): an exchange is answered 400 invalid_grant without tokens
\* when the code is unknown, the redirect_uri or the client_id differs from
\* the stored one, or the time is later than expires_at (the expired code
\* being present in the store when it is presented); the answers carry
\* three descriptions: one for an unknown code, one shared by the two
\* mismatches, and one for an expired code with matching client and URI.
C8_ThreeErrorDescriptions ==
  \A p \in Exchanges :
    LET resp == TokenResponse(p) IN
    /\ RefusalReasons(p) # {} => InvalidGrant(resp)
    /\ CodeUnknown(p) => resp.desc = "Invalid or expired authorization code."
    /\ (RedirectDiffers(p) \/ ClientDiffers(p))
         => resp.desc = "Redirect URI or client ID mismatch"
    /\ (CodeExpired(p) /\ ~RedirectDiffers(p) /\ ~ClientDiffers(p))
         => resp.desc = "Authorization code has expired"

\* an expired code was presented by its client and refused
C8_ExpiredRefused ==
  /\ IsExchangeResponse(lastResp)
  /\ InvalidGrant(lastResp)
  /\ lastResp.desc = "Authorization code has expired"

(***************************************************************************)
(* Properties of the token validator.  ValidatorCalls are the calls of     *)
(* is_token_valid that can be made in the current state; VerdictOf(c) is   *)
(* what the call returns.                                                  *)
(***************************************************************************)
ValidatorCalls ==
  [token : Tokens, required_tenant_id : RequiredTenantIds,
   discovery : DiscoveryAnswers, keys : JwksAnswers]

VerdictOf(c) == is_token_valid(c.token, c.required_tenant_id, c.discovery, c.keys).verdict

ExpInPast(token) ==
  token.jwt # Nil /\ token.jwt[1].payload.exp # Nil /\ token.jwt[1].payload.exp[1] <= now

\* the key set the call works with, None when it cannot be fetched
KeysOf(c) == get_jwks(jwks, oidc_config, c.discovery, c.keys).value

\* the call gets a key set, the token has a kid, the set has a key of that
\* kid and the RS256 signature of the token was made with that key
SignedByKnownKey(c) ==
  /\ c.token.jwt # Nil
  /\ KeysOf(c) # Nil
  /\ c.token.jwt[1].kid # Nil
  /\ \E i \in 1..Len(KeysOf(c)[1]) :
        /\ KeysOf(c)[1][i].kid = c.token.jwt[1].kid[1]
        /\ KeysOf(c)[1][i].key = c.token.jwt[1].key
  /\ c.token.jwt[1].alg = "RS256"

\* C11 as stated: every token whose exp is in the past is answered
\* (False, "Token has expired."), with or without a required tenant id.
C11_ExpiredAlwaysThatReason ==
  \A c \in ValidatorCalls :
    ExpInPast(c.token) => VerdictOf(c) = Invalid("Token has expired.")

\* C11 (amended): every token whose exp is in the past is rejected; the
\* answer is exactly (False, "Token has expired.") when the key set is
\* available and the token is signed by a key of the set that its kid
\* names, whatever its iss, aud and tenant_id and whether or not a tenant
\* id is required.
C11_ExpiredRejected ==
  \A c \in ValidatorCalls :
    ExpInPast(c.token) =>
      /\ ~VerdictOf(c).valid
      /\ SignedByKnownKey(c) => VerdictOf(c) = Invalid("Token has expired.")

\* a call that required a tenant id was answered "Token has expired."
C11_ExpiredWithTenantRequired ==
  /\ lastValid = Invalid("Token has expired.")
  /\ lastRequired # Nil

\* the same call without a required tenant id
WithoutTenant(c) == [c EXCEPT !.required_tenant_id = Nil]

\* the same call with the tenant_id claim of the token replaced
WithClaim(c, tenant_id) ==
  [c EXCEPT !.token.jwt = IF @ = Nil THEN Nil
                          ELSE Some([@[1] EXCEPT !.payload.tenant_id = tenant_id])]

\* C12: a token that is valid without a tenant requirement and is validated
\* with required tenant R is answered "'tenant_id' claim not found in
\* token." when it has no tenant_id, "Token 'tenant_id' (T) does not match
\* required tenant_id (R)." when its tenant_id T differs from R, and
\* (True, claims) when it equals R; without a requirement the answer does
\* not depend on the tenant_id claim.
C12_TenantCheck ==
  \A c \in ValidatorCalls :
    /\ (c.required_tenant_id # Nil /\ VerdictOf(WithoutTenant(c)).valid) =>
         LET T == c.token.jwt[1].payload.tenant_id
             R == c.required_tenant_id
         IN /\ T = Nil => VerdictOf(c) = Invalid("'tenant_id' claim not found in token.")
            /\ (T # Nil /\ T # R) =>
                 VerdictOf(c) = Invalid("Token 'tenant_id' (" \o T[1]
                                          \o ") does not match required tenant_id ("
                                          \o R[1] \o ").")
            /\ T = R => VerdictOf(c) = Verdict(TRUE, Nil, Some(c.token.jwt[1].payload))
    /\ c.required_tenant_id = Nil =>
         \A T \in {Nil, Some("tenant-abc"), Some("tenant-xyz")} :
            /\ VerdictOf(WithClaim(c, T)).valid = VerdictOf(c).valid
            /\ VerdictOf(WithClaim(c, T)).reason = VerdictOf(c).reason

\* a token of another tenant was refused for its tenant_id
C12_MismatchRefused ==
  /\ lastRequired = Some("tenant-abc")
  /\ lastValid = Invalid("Token 'tenant_id' (tenant-xyz) does not match required tenant_id (tenant-abc).")

\* C13: the answer is (True, claims) exactly when the token is not empty,
\* has a kid, the key set has a key of that kid, the signature verifies
\* with it, exp is in the future, aud is the resource identifier, iss is
\* the issuer of the discovery document and the tenant check passes; else
\* it is (False, reason); an empty token is refused without any fetch.
C13_ValidIffAllChecksPass ==
  \A c \in ValidatorCalls :
    LET r == is_token_valid(c.token, c.required_tenant_id, c.discovery, c.keys)
        claims == c.token.jwt[1].payload
        config == get_jwks(jwks, oidc_config, c.discovery, c.keys).oidc_config
    IN
    /\ r.verdict.valid <=>
         /\ c.token.text # ""
         /\ SignedByKnownKey(c)
         /\ claims.exp # Nil /\ claims.exp[1] > now
         /\ claims.aud = Some(RESOURCE_AUDIENCE)
         /\ claims.iss = config[1].issuer
         /\ c.required_tenant_id # Nil => claims.tenant_id = c.required_tenant_id
    /\ r.verdict.valid => r.verdict = Verdict(TRUE, Nil, Some(claims))
    /\ ~r.verdict.valid => r.verdict.reason # Nil /\ r.verdict.claims = Nil
    /\ c.token.text = "" => r.gets = 0 /\ r.verdict = Invalid("Token is empty.")

(***************************************************************************)
(* Properties of the tokens of a code exchange.                            *)
(***************************************************************************)
\* C20: a code is stored with the user of the session that consented and
\* with the scopes of that session's authorization request, the stored grant
\* does not change while the code exists, and every exchange request that is
\* answered 200 gets an access token whose sub and tenant_id are those of the
\* stored user and an ID token whose sub is that user's, both with exactly
\* the stored scopes: whatever the client credentials, the scope field, the
\* redirect_uri and the code_verifier of the request are.
C20_TokensBoundToCodeUserAndScopes ==
  /\ [](\A p \in UserTokenRequests :
          LET resp == TokenResponse(p)
              data == PopData(AUTHORIZATION_CODES, p.code)
          IN resp.status = 200 =>
               /\ data # Nil
               /\ resp.access_token[1].payload.sub = data[1].user.sub
               /\ resp.access_token[1].payload.tenant_id = Some(data[1].user.tenant_id)
               /\ resp.access_token[1].payload.scope = Join(data[1].scopes)
               /\ resp.id_token[1].payload.sub = data[1].user.sub
               /\ resp.id_token[1].payload.scope = Join(data[1].scopes)
               /\ resp.scope = Some(Join(data[1].scopes)))
  /\ [][\A c \in DOMAIN AUTHORIZATION_CODES' :
          IF c \in DOMAIN AUTHORIZATION_CODES
          THEN AUTHORIZATION_CODES'[c] = AUTHORIZATION_CODES[c]
          ELSE /\ DictGet(session, "user") = Some(AUTHORIZATION_CODES'[c].user)
               /\ \E u \in DOMAIN USER_REGISTRY :
                     AUTHORIZATION_CODES'[c].user = USER_REGISTRY[u]
               /\ AUTHORIZATION_CODES'[c].scopes = Split(session["auth_request"].scope)]_vars

\* jane.doe's code, minted for the scope openid alone, was exchanged by a
\* request that asked for another scope: the tokens are hers, scope openid
C20_SecondUserExchanged ==
  /\ lastResp.ep = "token"
  /\ lastResp.status = 200
  /\ lastResp.access_token[1].payload.sub = "jane.doe"
  /\ lastResp.access_token[1].payload.tenant_id = Some("tenant-xyz")
  /\ lastResp.access_token[1].payload.scope = <<"openid">>
  /\ lastResp.id_token[1].payload.sub = "jane.doe"

(***************************************************************************)
(* Properties of /authorize and /consent.                                  *)
(***************************************************************************)
\* the answers of /authorize that present neither the login step nor the
\* consent step
AuthorizeFailed(resp) ==
  /\ resp.ep = "authorize"
  /\ ~(resp.status = 200 /\ resp.error = "" /\ resp.desc \in {"login.html", "consent.html"})

\* a failed step leaves the session, the stored codes and the count of
\* issued tokens as they were (this half holds)
AuthorizeFailureCreatesNothing ==
  AuthorizeFailed(lastResp') =>
    /\ session' = session
    /\ AUTHORIZATION_CODES' = AUTHORIZATION_CODES
    /\ issued' = issued
    /\ NoTokens(lastResp')

\* C23: every failed step of /authorize (unknown client or unregistered
\* redirect_uri on GET, wrong username or password on POST) is answered with
\* a status between 400 and 499, and the step leaves the session, the stored
\* codes and the count of issued tokens as they were.
C23_AuthorizeFailureIs400 ==
  /\ [](AuthorizeFailed(lastResp) => lastResp.status \in 400..499)
  /\ [][AuthorizeFailureCreatesNothing]_vars

\* C24: a step that stores a code stores exactly one, under a key that
\* was not in use, and only for a session that holds a logged-in user and an
\* authorization request of response_type code.  The stored grant has the
\* client_id, scopes, redirect_uri, code_challenge and code_challenge_method
\* of that request and the user of the session, and expires 300 s after the
\* step; the answer is a redirect to the request's redirect_uri that
\* carries the new code and the request's state in the query string, and it
\* mints no token.  Conversely a redirect that carries a code is always the
\* answer of such a step.
C24_ConsentStoresOneBoundCode ==
  /\ [][\A c \in DOMAIN AUTHORIZATION_CODES' \ DOMAIN AUTHORIZATION_CODES :
          /\ DOMAIN AUTHORIZATION_CODES' = DOMAIN AUTHORIZATION_CODES \cup {c}
          /\ \A d \in DOMAIN AUTHORIZATION_CODES :
                AUTHORIZATION_CODES'[d] = AUTHORIZATION_CODES[d]
          /\ issued[c] = 0
          /\ "auth_request" \in DOMAIN session /\ "user" \in DOMAIN session
          /\ session["auth_request"].response_type = "code"
          /\ AUTHORIZATION_CODES'[c] =
                [client_id |-> session["auth_request"].client_id,
                 user |-> session["user"],
                 scopes |-> Split(session["auth_request"].scope),
                 redirect_uri |-> session["auth_request"].redirect_uri,
                 expires_at |-> now + 300,
                 code_challenge |-> session["auth_request"].code_challenge,
                 code_challenge_method |-> session["auth_request"].code_challenge_method]
          /\ lastResp'.ep = "consent"
          /\ lastResp'.status = 302
          /\ lastResp'.redirect =
                Some(Redirect(session["auth_request"].redirect_uri, "query", Some(c),
                              session["auth_request"].state, Nil))
          /\ NoTokens(lastResp')
          /\ issued' = issued]_vars
  /\ [][(lastResp' # lastResp /\ lastResp'.redirect # Nil
          /\ lastResp'.redirect[1].code # Nil)
         => /\ lastResp'.redirect[1].code[1] \in
                 DOMAIN AUTHORIZATION_CODES' \ DOMAIN AUTHORIZATION_CODES
            /\ lastResp'.redirect[1].part = "query"]_vars

\* a code was stored for a request that supplied a code_challenge, for
\* jane.doe and the scope openid
C24_CodeWithChallengeStored ==
  \E c \in DOMAIN AUTHORIZATION_CODES :
    /\ AUTHORIZATION_CODES[c].code_challenge # Nil
    /\ AUTHORIZATION_CODES[c].code_challenge_method = Some("S256")
    /\ AUTHORIZATION_CODES[c].user.sub = "jane.doe"
    /\ AUTHORIZATION_CODES[c].scopes = <<"openid">>
    /\ lastResp.ep = "consent"
    /\ lastResp.redirect[1].code = Some(c)

(***************************************************************************)
(* Properties of the grants of the token endpoint.                         *)
(***************************************************************************)
\* the scopes a scope parameter asks for: its non-empty parts
RequestedScopes(scope) == {scope[i] : i \in 1..Len(scope)} \ {""}

ClientCredentialsRequests ==
  {p \in GrantRequests : AuthenticatedClient(p) # Nil /\ p.grant_type = "client_credentials"}

IsClientCredentialsSuccess(p, resp) ==
  /\ resp.status = 200
  /\ resp.access_token # Nil
  /\ resp.id_token = Nil
  /\ resp.scope = Some(p.scope)
  /\ resp.access_token[1].payload.scope = p.scope
  /\ resp.access_token[1].payload.sub = AuthenticatedClient(p)[1]

IsInvalidScope(resp) ==
  /\ resp.status = 400
  /\ resp.error = "invalid_scope"
  /\ NoTokens(resp)

\* C21 as stated: a client_credentials request of an authenticated client
\* gets 200 with an access token only, scope echoed, exactly when the set of
\* the scopes it asks for is a subset of the client's allowed_scopes, and 400
\* invalid_scope with no token otherwise.
C21_SucceedsIffSubset ==
  \A p \in ClientCredentialsRequests :
    IF RequestedScopes(p.scope) \subseteq CLIENT_REGISTRY[AuthenticatedClient(p)[1]].allowed_scopes
    THEN IsClientCredentialsSuccess(p, TokenResponse(p))
    ELSE IsInvalidScope(TokenResponse(p))

\* C21 (amended): it gets 200 with an access token only, scope echoed in the
\* response and in the token, exactly when the scope parameter is not empty,
\* has no empty part and every part is one of the client's allowed_scopes;
\* otherwise (a missing or empty scope parameter included) 400 invalid_scope
\* with no token.  The answer does not touch the authorization codes.
C21_SucceedsIffEveryPartAllowed ==
  /\ [](\A p \in ClientCredentialsRequests :
          IF /\ p.scope # <<>>
             /\ \A i \in 1..Len(p.scope) :
                   p.scope[i] \in CLIENT_REGISTRY[AuthenticatedClient(p)[1]].allowed_scopes
          THEN IsClientCredentialsSuccess(p, TokenResponse(p))
          ELSE IsInvalidScope(TokenResponse(p)))
  /\ [][(lastResp'.ep = "token" /\ lastResp'.req # Nil
          /\ lastResp'.req[1].grant_type = "client_credentials")
         => AUTHORIZATION_CODES' = AUTHORIZATION_CODES /\ issued' = issued]_vars

\* a client_credentials request for api:read was answered with a token of
\* that scope
C21_ApiReadGranted ==
  /\ lastResp.ep = "token"
  /\ lastResp.status = 200
  /\ lastResp.req[1].grant_type = "client_credentials"
  /\ lastResp.access_token[1].payload.scope = <<"api:read">>
  /\ lastResp.id_token = Nil

\* the client a request names is not registered, or the secret it presents
\* is not that client's
BadClient(p) ==
  LET cred == ClientCredentials(p) IN
  IF cred[1] = Nil THEN TRUE
  ELSE IF cred[1][1] \notin DOMAIN CLIENT_REGISTRY THEN TRUE
  ELSE cred[2] # Some(CLIENT_REGISTRY[cred[1][1]].client_secret)

\* C22: a token request whose client is unknown or whose secret does not
\* match is answered 401 invalid_client whatever its grant type, and a
\* request of an authenticated client with a grant type other than
\* client_credentials and authorization_code is answered 400
\* unsupported_grant_type; neither answer carries a token, and the step that
\* gives either answer leaves the stored authorization codes as they were,
\* the code the request presents included.
C22_BadClientOrGrantConsumesNothing ==
  /\ [](\A p \in GrantRequests :
          LET resp == TokenResponse(p) IN
          /\ BadClient(p) =>
                resp.status = 401 /\ resp.error = "invalid_client" /\ NoTokens(resp)
          /\ (~BadClient(p)
               /\ p.grant_type \notin {"client_credentials", "authorization_code"}) =>
                /\ resp.status = 400
                /\ resp.error = "unsupported_grant_type"
                /\ NoTokens(resp)
          /\ resp.status = 401 => BadClient(p)
          /\ resp.error = "unsupported_grant_type" =>
                p.grant_type \notin {"client_credentials", "authorization_code"})
  /\ [][(/\ lastResp'.ep = "token"
          /\ lastResp'.req # Nil
          /\ \/ lastResp'.status = 401
             \/ lastResp'.error = "unsupported_grant_type")
         => /\ AUTHORIZATION_CODES' = AUTHORIZATION_CODES
            /\ issued' = issued
            /\ NoTokens(lastResp')]_vars

\* a request with a wrong secret presented a code that is stored, was
\* answered 401, and the code is still stored
C22_BadSecretKeptCode ==
  /\ lastResp.ep = "token"
  /\ lastResp.status = 401
  /\ lastResp.desc = "Client authentication failed"
  /\ lastResp.req[1].grant_type = "authorization_code"
  /\ lastResp.req[1].code # Nil
  /\ lastResp.req[1].code[1] \in DOMAIN AUTHORIZATION_CODES

(***************************************************************************)
(* Properties of the router.                                               *)
(***************************************************************************)
\* the registered card of a name
CardNamed(name) == cards[CHOOSE i \in 1..Len(cards) : cards[i].name = name]

IsSecured(name) ==
  \E i \in 1..Len(cards) : cards[i].name = name /\ cards[i].security # Nil

\* the sends made to cards that declare a security block
SecuredSends ==
  {s \in UNION {{units[t].sends[i] : i \in 1..Len(units[t].sends)} : t \in DOMAIN units} :
     IsSecured(s.agent_name)}

C3_ExpiredTokenRefreshedAndRetried ==
  \A t \in DOMAIN units :
    (units[t].pc = "done" /\ units[t].sends # <<>>
       /\ units[t].sends[1].authorization # Nil
       /\ units[t].reply = Some("error_expired"))
      => /\ Len(units[t].sends) = 2
         /\ units[t].sends[2].authorization # Nil
         /\ units[t].sends[2].authorization # units[t].sends[1].authorization

\* the answers of a remote agent that reach line 377
AnsweredOutcomes == {"task", "message", "error_expired", "error_other"}

\* C14: a dispatch that was answered makes exactly one change to the task
\* store.  An answer that is a success carrying a Task records the remote
\* task id on the local task and moves it to working, and leaves its message
\* alone; every other answer (an error, a success carrying no Task) moves the
\* local task to failed with a stored message and records no remote task id.
\* No other task changes.
C14_AnsweredDispatchMutatesOnce ==
  [][\A t \in DOMAIN units :
       (/\ units[t].pc = "spawned"
        /\ units'[t].pc = "done"
        /\ units'[t].reply # Nil
        /\ units'[t].reply[1] \in AnsweredOutcomes)
       => /\ t \in DOMAIN tasks
          /\ IF units'[t].reply = Some("task")
             THEN tasks' = [tasks EXCEPT ![t].remote_task_id = Some("remote-task"),
                                         ![t].state = "working"]
             ELSE tasks' = [tasks EXCEPT ![t].state = "failed",
                                         ![t].message = Some("Failed to send message")]
          /\ tasks'[t].state = "failed" <=> tasks'[t].remote_task_id = Nil]_vars

\* a dispatch was answered with a success that carries no Task, and its task
\* is failed with the stored message
C14_NonTaskAnswerFailed ==
  \E t \in DOMAIN units :
    /\ units[t].pc = "done"
    /\ units[t].reply = Some("message")
    /\ tasks[t].state = "failed"
    /\ tasks[t].message = Some("Failed to send message")
    /\ tasks[t].remote_task_id = Nil

\* C15: a background dispatch that has ended, with an answer or with a
\* transport failure (the send raised, the agent has no connection), has
\* moved its task out of submitted, and to failed with a stored message
\* unless the answer was a Task.
C15_EndedDispatchLeftSubmitted ==
  \A t \in DOMAIN units :
    units[t].pc \in {"done", "raised"} =>
      /\ tasks[t].state # "submitted"
      /\ units[t].reply # Some("task") => tasks[t].message # Nil

C17_DispatchPersistsConfirmsSendsOnce ==
  /\ [](\A t \in DOMAIN tasks :
          /\ t \notin redirected => t \in DOMAIN units
          /\ t \in DOMAIN units => Len(units[t].sends) <= 1)
  /\ [][(nextTask' # nextTask /\ nextTask \notin redirected')
          => /\ DOMAIN tasks' = DOMAIN tasks \cup {nextTask}
             /\ nextTask \notin DOMAIN tasks
             /\ tasks'[nextTask].state = "submitted"
             /\ \A t \in DOMAIN tasks : tasks'[t] = tasks[t]
             /\ lastReturn'.kind = "confirmation"
             /\ lastReturn'.task_id = Some(nextTask)
             /\ nextTask \in DOMAIN units'
             /\ units'[nextTask].pc = "spawned"
             /\ units'[nextTask].sends = <<>>]_vars

\* C18: get_task_status on a stored task that has no remote_task_id reports
\* the state the store holds; on a task that a successful dispatch gave a
\* remote_task_id it reports the state the remote agent answers for that
\* remote task, whatever the local state is.
C18_StatusLocalThenRemote ==
  \A task_id \in DOMAIN tasks, context \in RequestContexts, remote_task \in RemoteTasks :
    LET answer == get_task_status(tasks, task_id, context, remote_task) IN
    IF tasks[task_id].remote_task_id = Nil
    THEN answer = Status("status", Some(tasks[task_id].state))
    ELSE remote_task # Nil => answer = Status("status", remote_task)

\* the requests the callback refuses before it asks the token endpoint
BadCallbackRequest(code, st) ==
  IF code = Nil \/ st = Nil THEN TRUE
  ELSE IF JsonLoads(st[1]) = Nil THEN TRUE
  ELSE JsonLoads(st[1])[1].task_id = Nil

\* C19: the callback writes the session and a task only for a request that
\* has a code and a state whose JSON holds a task_id and whose code the token
\* endpoint exchanged with status 200.  Then it writes the access_token and
\* the refresh_token of the answer into the session state and nothing else,
\* and moves the task of that id, if the store has it, to working, leaving
\* every other task alone.  Every other request is answered 400 with no
\* write to the session and no task to update.
C19_CallbackWritesOnlyOnSuccess ==
  /\ [](\A code \in CallbackCodes, st \in CallbackStates, resp \in TokenResponses :
          LET answer == handle_callback(code, st, resp) IN
          IF BadCallbackRequest(code, st) \/ resp.status # 200
          THEN answer = [status |-> Some(400), state_delta |-> Nil, task_id |-> Nil]
          ELSE /\ answer.status = Nil
               /\ answer.state_delta = Some([access_token |-> resp.access_token,
                                             refresh_token |-> resp.refresh_token])
               /\ answer.task_id = JsonLoads(st[1])[1].task_id)
  /\ [][(cb.pc = "idle" /\ cb' # cb)
          => /\ cb'.pc = "exchanged"
             /\ cb'.task_id # Nil
             /\ tasks' = tasks
             /\ \E resp \in TokenResponses :
                   /\ resp.status = 200
                   /\ state' = [state EXCEPT !.access_token = resp.access_token,
                                              !.refresh_token = resp.refresh_token]]_vars
  /\ [][(cb.pc = "idle" /\ cb' = cb /\ units' = units)
          => state.access_token = state'.access_token
             /\ state.refresh_token = state'.refresh_token]_vars
  /\ [][(cb.pc = "exchanged" /\ cb' # cb) => (tasks' = tasks /\ state' = state)]_vars
  /\ [][(cb.pc = "loaded" /\ cb' # cb)
          => /\ state' = state
             /\ DOMAIN tasks' = DOMAIN tasks
             /\ \A t \in DOMAIN tasks :
                   IF cb.task_id = Some(t) /\ cb.task # Nil
                   THEN tasks'[t].state = "working"
                   ELSE tasks'[t] = tasks[t]]_vars

\* a callback for a stored task exchanged its code: the session holds the
\* access token and the task is working
C19_CallbackCompleted ==
  /\ cb.pc = "idle"
  /\ state.access_token # Nil
  /\ \E t \in redirected : tasks[t].state = "working"

\* C26: what the dispatch unit of a task wrote is not overwritten by the
\* OAuth callback: once the unit has ended on an answer, the task keeps the
\* remote task id and the state working (answer Task), or the state failed
\* and the stored message (any other answer), whatever the callback does,
\* its read-then-save around the unit's write included.
C26_DispatchWriteNotOverwritten ==
  \A t \in DOMAIN units :
    (units[t].pc = "done" /\ units[t].reply # Nil) =>
      IF units[t].reply = Some("task")
      THEN tasks[t].remote_task_id # Nil /\ tasks[t].state = "working"
      ELSE tasks[t].state = "failed" /\ tasks[t].message # Nil

\* the same with the callback reading only between writes of the unit: a
\* unit's write that falls between the callback's get and its save
LostUpdate ==
  \E t \in DOMAIN units :
    /\ units[t].pc = "done"
    /\ units[t].reply = Some("task")
    /\ tasks[t].remote_task_id = Nil

StateRank(s) ==
  CASE s = "submitted" -> 0 [] s = "working" -> 1 [] OTHER -> 2

\* C4: the state of a task only moves forward (submitted, working, then
\* completed or failed), and a task that is completed or failed keeps its
\* state, whichever step writes the task.
C4_TaskStateOnlyForward ==
  [][\A t \in DOMAIN tasks :
       /\ t \in DOMAIN tasks'
       /\ StateRank(tasks'[t].state) >= StateRank(tasks[t].state)
       /\ tasks[t].state \in {"completed", "failed"} => tasks'[t].state = tasks[t].state]_vars

\* the task of an OAuth reply is persisted and no dispatch exists for it
OAuthTaskNotDispatched ==
  \A t \in redirected : t \in DOMAIN tasks /\ t \notin DOMAIN units

IsRedirectPayload(ret) ==
  /\ ret.payload.redirect_url # Nil
  /\ ret.payload.task_id = ret.task_id
  /\ ret.payload.error = Nil
  /\ ret.payload.redirect_url[1].client_id = ret.agent[1]
  /\ JsonLoads(ret.payload.redirect_url[1].state) = Some([task_id |-> ret.task_id])

HasTag(skill, tag) == \E i \in 1..Len(skill) : skill[i] = tag

\* C9: with tenant_id T in the session, type "horizon" resolves only to a
\* card that has a skill whose tags include type:horizon and tenant_id:T;
\* without a tenant_id in the session it resolves to no card.
C9_TenantScopedResolution ==
  LET r == _find_agent_card_by_type(cards, "horizon", state) IN
  /\ state.tenant_id = Nil => r = Nil
  /\ r # Nil =>
       \E s \in 1..Len(r[1].skills) :
          /\ HasTag(r[1].skills[s], <<"type", "horizon">>)
          /\ HasTag(r[1].skills[s], <<"tenant_id", state.tenant_id[1]>>)

\* "horizon" was resolved to the card of the session's tenant although a
\* horizon card of another tenant is registered before it
C9_OtherTenantSkipped ==
  /\ found # Nil
  /\ found = _find_agent_card_by_type(cards, "horizon", state)
  /\ \E i \in 1..Len(cards) :
        /\ cards[i].name # found[1].name
        /\ \E s \in 1..Len(cards[i].skills) :
              /\ HasTag(cards[i].skills[s], <<"type", "horizon">>)
              /\ \E T \in TenantIds \ {Nil, state.tenant_id} :
                    HasTag(cards[i].skills[s], <<"tenant_id", T[1]>>)
        /\ \E j \in 1..Len(cards) : cards[j].name = found[1].name /\ i < j

\* the key:value pairs the filter of a request consists of
FilterTags(agent_type, st) ==
  IF agent_type \in tenant_specific_agents
  THEN {<<"type", agent_type>>, <<"tenant_id", st.tenant_id[1]>>}
  ELSE {<<"type", agent_type>>}

\* the card has a skill whose set of key:value tags contains the filter
Qualifies(card, agent_type, st) ==
  /\ agent_type \in tenant_specific_agents => st.tenant_id # Nil
  /\ \E s \in 1..Len(card.skills) :
        \A tag \in FilterTags(agent_type, st) : HasTag(card.skills[s], tag)

\* C10: resolution returns the first card, in registration order, that has
\* a skill whose set of tags is a superset of the filter, and no card
\* exactly when no registered card has such a skill.
C10_FirstSupersetCard ==
  \A agent_type \in AgentTypes :
    LET r == _find_agent_card_by_type(cards, agent_type, state)
        q == {i \in 1..Len(cards) : Qualifies(cards[i], agent_type, state)}
    IN IF q = {} THEN r = Nil
       ELSE r = Some(cards[CHOOSE i \in q : \A j \in q : i <= j])

\* the type is tenant-scoped and the session has no tenant_id
NoTenantForScopedType(agent_type) == agent_type = "horizon" /\ state.tenant_id = Nil

\* no registered card has a skill tagged with the type (and, for the
\* tenant-scoped type, with the session's tenant)
NoCardMatches(agent_type) ==
  ~\E i \in 1..Len(cards) : \E s \in 1..Len(cards[i].skills) :
      /\ HasTag(cards[i].skills[s], <<"type", agent_type>>)
      /\ agent_type = "horizon" =>
            /\ state.tenant_id # Nil
            /\ HasTag(cards[i].skills[s], <<"tenant_id", state.tenant_id[1]>>)

\* C25: a type resolves to no card exactly when it is tenant-scoped and the
\* session has no tenant_id, or no registered card matches it; and the
\* send_message that then returns the "can't find an agent" message changes
\* nothing else: no task is stored, no task id is used up, the session state
\* is as it was, and no dispatch unit is created or run.
C25_NotFoundHasNoEffect ==
  /\ [](\A agent_type \in AgentTypes :
          (NoTenantForScopedType(agent_type) \/ NoCardMatches(agent_type))
            <=> _find_agent_card_by_type(cards, agent_type, state) = Nil)
  /\ [][(lastReturn' # lastReturn /\ lastReturn'.kind = "not_found")
         => /\ lastReturn' = Return("not_found", Nil, Nil, NoPayload)
            /\ \E agent_type \in AgentTypes :
                  NoTenantForScopedType(agent_type) \/ NoCardMatches(agent_type)
            /\ UNCHANGED <<cards, state, tasks, nextTask, units, redirected, cb>>]_vars
  /\ [][nextTask' # nextTask =>
          \E agent_type \in AgentTypes :
             ~(NoTenantForScopedType(agent_type) \/ NoCardMatches(agent_type))]_vars

\* send_message returned the message for a session without tenant_id while
\* a task of an earlier call is stored
C25_NotFoundReturned ==
  /\ lastReturn.kind = "not_found"
  /\ state.tenant_id = Nil
  /\ DOMAIN tasks # {}

(***************************************************************************)
(* Properties of the validator's two caches.                               *)
(***************************************************************************)
\* a call of is_token_valid with a token that is not empty
FetchingCalls == {c \in ValidatorCalls : c.token.text # ""}

ResultOf(c) == is_token_valid(c.token, c.required_tenant_id, c.discovery, c.keys)

\* the discovery document the call works with: the cached one, else the
\* answer to its fetch (None when the fetch fails)
ConfigOf(c) == IF oidc_config # Nil THEN oidc_config ELSE c.discovery

\* C29: a call whose discovery fetch fails, or whose JWKS fetch fails, is
\* answered (False, "Failed to get JWKS: <the fetch failure>") and leaves the
\* failed item uncached; a discovery document that is cached or was fetched
\* by the call is cached after it even when the JWKS fetch fails; and while
\* an item is uncached a call whose fetches are answered fetches it again,
\* caches it and is not answered with a fetch failure.
C29_FetchFailureLeavesItemUncached ==
  \A c \in FetchingCalls :
    LET r == ResultOf(c) IN
    /\ (jwks = Nil /\ oidc_config = Nil /\ c.discovery = Nil) =>
          /\ r.verdict = Invalid("Failed to get JWKS: Error fetching OIDC config: RequestException")
          /\ r.oidc_config = Nil
          /\ r.jwks = Nil
    /\ (jwks = Nil /\ ConfigOf(c) # Nil /\ ConfigOf(c)[1].jwks_uri # Nil /\ c.keys = Nil) =>
          /\ r.verdict = Invalid("Failed to get JWKS: Error fetching JWKS: RequestException")
          /\ r.jwks = Nil
          /\ r.oidc_config = ConfigOf(c)
    /\ (jwks = Nil /\ ConfigOf(c) # Nil /\ ConfigOf(c)[1].jwks_uri # Nil /\ c.keys # Nil) =>
          /\ r.gets = (IF oidc_config = Nil THEN 2 ELSE 1)
          /\ r.jwks = c.keys
          /\ r.oidc_config = ConfigOf(c)
          /\ r.verdict = ValidateWith(c.token, c.required_tenant_id, c.keys[1],
                                     ConfigOf(c)[1].issuer, now)

\* the last call fetched the discovery document and failed to fetch the key
\* set: the document is cached, the key set is not
C29_JwksFetchFailedConfigKept ==
  /\ lastValid = Invalid("Failed to get JWKS: Error fetching JWKS: RequestException")
  /\ lastGets = 2
  /\ oidc_config # Nil
  /\ jwks = Nil

\* the token names a kid that no key of the cached key set has
KidNotCached(token) ==
  /\ token.jwt # Nil
  /\ token.jwt[1].kid # Nil
  /\ MatchingKey(jwks[1], token.jwt[1].kid[1]) = Nil

\* the calls looked at once the caches are set: the empty token, a text that
\* is no JWT, and a token of the server under no kid, its kid and another
\* kid, with every answer the server could give if it were asked
CachedCalls ==
  [token : {EmptyToken, NotAJwt} \cup
           {[text |-> "header.payload.signature",
             jwt |-> Some([kid |-> kid, alg |-> "RS256", key |-> "idp_rsa",
                           payload |-> [iss |-> Some(ISSUER),
                                        aud |-> Some(RESOURCE_AUDIENCE),
                                        sub |-> "john.doe",
                                        exp |-> Some(TOKEN_TTL),
                                        tenant_id |-> Some("tenant-abc")]])] :
              kid \in {Nil, Some(KID), Some("other-kid")}},
   required_tenant_id : {Nil},
   discovery : DiscoveryAnswers,
   keys : RotatedJwksAnswers]

\* C28: with both globals set, every call of is_token_valid makes no
\* request and leaves both globals as they are, and a token whose kid is not
\* in the cached key set is answered "No matching key found in JWKS."; a
\* call that begins with both set never fetches; each global only ever holds
\* a value that some fetch returned, and it changes only in the step in which
\* a call that found it unset receives its answer.
C28_CachedValuesNotRefetched ==
  /\ [](Cached(oidc_config) /\ Cached(jwks) =>
         \A c \in CachedCalls :
           LET r == ResultOf(c) IN
           /\ r.gets = 0
           /\ r.oidc_config = oidc_config
           /\ r.jwks = jwks
           /\ (c.token.text # "" /\ KidNotCached(c.token)) =>
                 r.verdict = Invalid("No matching key found in JWKS."))
  /\ [](\A i \in Validators :
          validations[i].cached_at_call =>
            /\ validations[i].pc = "return_jwks"
            /\ validations[i].fetched_config = Nil
            /\ validations[i].fetched_keys = Nil)
  /\ []((Cached(oidc_config) => oidc_config \in fetched.config)
        /\ (Cached(jwks) => jwks \in fetched.jwks))
  /\ [][(oidc_config' # oidc_config =>
           \E i \in Validators :
              /\ validations[i].pc = "fetch_oidc_config"
              /\ ~validations[i].cached_at_call
              /\ validations'[i].fetched_config = oidc_config'
              /\ Cached(oidc_config'))
        /\ (jwks' # jwks =>
           \E i \in Validators :
              /\ validations[i].pc = "fetch_jwks"
              /\ ~validations[i].cached_at_call
              /\ validations'[i].fetched_keys = jwks'
              /\ Cached(jwks'))]_vars

\* two calls that both found the key set unset have both fetched it, with
\* different answers, and the global holds the answer that came second
C28_BothFetched ==
  /\ validations[1].pc = "return_jwks"
  /\ validations[2].pc = "return_jwks"
  /\ validations[1].fetched_keys # Nil
  /\ validations[2].fetched_keys # Nil
  /\ validations[1].fetched_keys # validations[2].fetched_keys
  /\ jwks = validations[2].fetched_keys
  /\ fetched.jwks = {validations[1].fetched_keys, validations[2].fetched_keys}

(***************************************************************************)
(* Exceptions of the authorization server.                                 *)
(***************************************************************************)
\* C30 as stated: no request to /authorize, /consent or /generate-token
\* ends in an unhandled exception; every answer is a page or a redirect
\* (200, 302) or a structured 400 or 401.
C30_NoUnhandledException ==
  /\ lastResp.error # "exception"
  /\ lastResp # NoResponse => lastResp.status \in {200, 302, 400, 401}

(***************************************************************************)
(* Properties of the consent decision.                                     *)
(***************************************************************************)
\* the session holds an authorization request and a logged-in user
LoggedIn == DictGet(session, "auth_request") # Nil /\ DictGet(session, "user") # Nil

\* C31: a POST /consent whose consent is not "true", in a session that has
\* an authorization request and a user, is answered with a redirect to the
\* request's redirect_uri whose query string has error=access_denied and the
\* request's state; the step stores no code and the answer carries no token.
C31_DenialRedirectsAndCreatesNothing ==
  [][(LoggedIn /\ Consent("false")) =>
       /\ lastResp'.status = 302
       /\ lastResp'.redirect =
            Some([uri |-> DictGet(session, "auth_request")[1].redirect_uri,
                  part |-> "query", code |-> Nil,
                  state |-> DictGet(session, "auth_request")[1].state,
                  error |-> Some("access_denied")])
       /\ DictGet(session, "auth_request")[1].state # Nil
       /\ NoTokens(lastResp')
       /\ UNCHANGED <<AUTHORIZATION_CODES, nextCode, issued>>]_vars

\* a denial was answered while a code of an earlier approval is stored
C31_DeniedWithCodeStored ==
  /\ lastResp.ep = "consent"
  /\ lastResp.redirect # Nil
  /\ lastResp.redirect[1].error = Some("access_denied")
  /\ lastResp.redirect[1].state = Some("st-1")
  /\ DOMAIN AUTHORIZATION_CODES # {}

(***************************************************************************)
(* Properties of issued tokens under validation.                           *)
(***************************************************************************)
\* the last answer is a token response of the authorization_code grant
IssuedByCodeGrant ==
  /\ lastResp.ep = "token"
  /\ lastResp.status = 200
  /\ lastResp.req[1].grant_type = "authorization_code"
  /\ lastResp.access_token # Nil

\* validations of that token by a validator that has or gets the key set
IssuedCalls ==
  {c \in [token : {Presented(lastResp.access_token[1])},
          required_tenant_id : IssuedTenantIds,
          discovery : DiscoveryAnswers, keys : JwksAnswers] : KeysOf(c) # Nil}

\* C32: an access token of the authorization_code grant names a kid of the
\* published key set, the issuer of the discovery document and the
\* validator's audience; validated with the tenant of its user it is accepted
\* at every instant before its exp, one hour after it was issued, and
\* answered "Token has expired." from then on.
C32_IssuedTokenAcceptedUntilExpiry ==
  IssuedByCodeGrant =>
    LET t == lastResp.access_token[1] IN
    /\ t.payload.sub \in DOMAIN USER_REGISTRY
    /\ t.payload.exp - t.payload.iat = TOKEN_TTL
    /\ \A k \in JwksAnswers \ {Nil} : MatchingKey(k[1], t.kid) # Nil
    /\ \A d \in DiscoveryAnswers \ {Nil} : d[1].issuer = Some(t.payload.iss)
    /\ t.payload.aud = RESOURCE_AUDIENCE
    /\ \A c \in IssuedCalls :
          c.required_tenant_id = Some(USER_REGISTRY[t.payload.sub].tenant_id) =>
            IF now < t.payload.exp
            THEN VerdictOf(c) = Verdict(TRUE, Nil, Some(c.token.jwt[1].payload))
            ELSE VerdictOf(c) = Invalid("Token has expired.")

\* a token of the code grant was validated with its user's tenant and
\* accepted in the last second of its life
C32_IssuedTokenAccepted ==
  /\ IssuedByCodeGrant
  /\ lastValid.valid
  /\ lastRequired = Some("tenant-xyz")
  /\ lastValid.claims[1].sub = "jane.doe"
  /\ lastValid.claims[1].exp = Some(TOKEN_TTL)
  /\ now = TOKEN_TTL - 1

(***************************************************************************)
(* Failed exchanges and the code store.                                    *)
(***************************************************************************)
\* C33 as stated: a token request of the authorization_code grant that is
\* refused leaves the stored codes as they were.
C33_FailedExchangeKeepsCode ==
  [][(/\ lastResp'.ep = "token"
      /\ lastResp'.status # 200
      /\ lastResp'.req # Nil
      /\ lastResp'.req[1].grant_type = "authorization_code")
       => AUTHORIZATION_CODES' = AUTHORIZATION_CODES]_vars

(***************************************************************************)
(* Where the session's token is sent.                                      *)
(***************************************************************************)
\* C34 as stated: a dispatch carries an Authorization header only when the
\* card it goes to declares a security block.
C34_BearerOnlyToSecuredCards ==
  \A t \in DOMAIN units :
    units[t].authorization # Nil => IsSecured(units[t].agent_name)

(***************************************************************************)
(* Scopes of issued tokens.                                                *)
(***************************************************************************)
\* the client the last answer's token was issued to: the authenticated
\* client of a token request, the client of the authorization request on
\* the implicit branch of /consent
IssuedTo ==
  IF lastResp.ep = "token" THEN lastResp.req[1].client_id[1]
  ELSE lastResp.id_token[1].payload.aud

\* C35 as stated: the scopes of every access token the server answers with
\* are among the allowed_scopes of the client it was issued to.
C35_TokenScopesAllowed ==
  lastResp.access_token # Nil =>
    \A i \in 1..Len(lastResp.access_token[1].payload.scope) :
      lastResp.access_token[1].payload.scope[i] \in CLIENT_REGISTRY[IssuedTo].allowed_scopes

(***************************************************************************)
(* Redirect targets.                                                       *)
(***************************************************************************)
\* the client is in the registry and the URI is among its redirect URIs
IsRegisteredUri(client_id, uri) ==
  \E c \in DOMAIN CLIENT_REGISTRY : c = client_id /\ uri \in CLIENT_REGISTRY[c].redirect_uri

\* C36: the authorization request of a session and every stored code name
\* a registered client and one of its registered redirect URIs, and every
\* redirect /consent answers with (with a code, with tokens, or with
\* access_denied) goes to the redirect_uri of the session's request.
C36_RedirectsGoToRegisteredUris ==
  /\ [](/\ DictGet(session, "auth_request") # Nil =>
             IsRegisteredUri(DictGet(session, "auth_request")[1].client_id,
                             DictGet(session, "auth_request")[1].redirect_uri)
        /\ \A c \in DOMAIN AUTHORIZATION_CODES :
             IsRegisteredUri(AUTHORIZATION_CODES[c].client_id,
                             AUTHORIZATION_CODES[c].redirect_uri))
  /\ [][(lastResp' # lastResp /\ lastResp'.ep = "consent" /\ lastResp'.redirect # Nil) =>
          /\ DictGet(session, "auth_request") # Nil
          /\ lastResp'.redirect[1].uri = DictGet(session, "auth_request")[1].redirect_uri
          /\ IsRegisteredUri(DictGet(session, "auth_request")[1].client_id,
                             lastResp'.redirect[1].uri)]_vars
  /\ [][lastResp'.status = 302 => lastResp'.ep = "consent" /\ lastResp'.redirect # Nil]_vars

\* a code is stored and a request for an unregistered URI was just refused
C36_CodeStoredEvilRefused ==
  /\ DOMAIN AUTHORIZATION_CODES # {}
  /\ lastResp = Response("authorize", 400, "", "Invalid client or redirect URI")
  /\ DictGet(session, "auth_request") = Nil

(***************************************************************************)
(* Tenant isolation of issued tokens.                                      *)
(***************************************************************************)
\* validations of the last answer's access token that require a tenant
TenantCalls ==
  {c \in [token : {Presented(lastResp.access_token[1])},
          required_tenant_id : IssuedTenantIds,
          discovery : DiscoveryAnswers, keys : JwksAnswers] : c.required_tenant_id # Nil}

\* C37: an access token issued for a user (by the authorization_code grant
\* or the implicit branch of /consent) carries the tenant_id of that user and
\* is refused by every validation that requires another tenant; an access
\* token issued by the client_credentials grant carries no tenant_id and is
\* refused by every validation that requires a tenant.
C37_NoCrossTenantAcceptance ==
  lastResp.access_token # Nil =>
    LET t == lastResp.access_token[1] IN
    IF lastResp.ep = "token" /\ lastResp.req[1].grant_type = "client_credentials"
    THEN /\ t.payload.tenant_id = Nil
         /\ \A c \in TenantCalls : ~VerdictOf(c).valid
    ELSE /\ t.payload.sub \in DOMAIN USER_REGISTRY
         /\ t.payload.tenant_id = Some(USER_REGISTRY[t.payload.sub].tenant_id)
         /\ \A c \in TenantCalls :
               c.required_tenant_id # Some(USER_REGISTRY[t.payload.sub].tenant_id) =>
                 ~VerdictOf(c).valid

\* a client_credentials token was refused for want of a tenant_id by a
\* validator that holds the key set
C37_ClientTokenRefused ==
  /\ lastResp.ep = "token"
  /\ lastResp.req[1].grant_type = "client_credentials"
  /\ lastResp.access_token # Nil
  /\ lastRequired = Some("tenant-abc")
  /\ lastValid = Invalid("'tenant_id' claim not found in token.")
  /\ jwks # Nil

(***************************************************************************)
(* The session after a consent decision.                                   *)
(***************************************************************************)
\* C38 as stated: a POST /consent that is answered with a redirect, be it
\* an approval or a denial, leaves a session without auth_request and user.
C38_DecisionClearsSession ==
  [][(LoggedIn /\ lastResp' # lastResp /\ lastResp'.ep = "consent" /\ lastResp'.status = 302)
       => /\ DictGet(session', "auth_request") = Nil
          /\ DictGet(session', "user") = Nil]_vars

(***************************************************************************)
(* Properties of the OAuth flow through router, server and callback.       *)
(***************************************************************************)
\* C39: the session never holds a refresh token: the callback writes the
\* refresh_token of the token endpoint's answer, which has none; and a token
\* request with grant_type=refresh_token from an authenticated client is
\* answered 400 unsupported_grant_type, from any client without a token and
\* without touching the stored codes or the session.
C39_NoRefreshTokenEver ==
  /\ [](state.refresh_token = Nil)
  /\ [](\A p \in RefreshRequests :
          /\ NoTokens(TokenResponse(p))
          /\ TokenData(TokenResponse(p)).refresh_token = Nil
          /\ AuthenticatedClient(p) # Nil =>
                TokenResponse(p) = Response("token", 400, "unsupported_grant_type", ""))
  /\ [][(/\ lastResp' # lastResp
          /\ lastResp'.ep = "token"
          /\ lastResp'.req[1].grant_type = "refresh_token") =>
          /\ lastResp'.status \in {400, 401}
          /\ NoTokens(lastResp')
          /\ UNCHANGED <<AUTHORIZATION_CODES, state>>]_vars

\* the callback has exchanged a code and written the session: an access
\* token and no refresh token
C39_CallbackWroteNoRefreshToken ==
  /\ lastResp.ep = "token"
  /\ lastResp.status = 200
  /\ state.access_token = lastResp.access_token
  /\ state.access_token # Nil
  /\ state.refresh_token = Nil
  /\ cb.pc = "exchanged"

\* C40 as stated: when the callback presents a code that /consent issued
\* for the client named after a secured card, the token endpoint accepts it
\* and the session receives the access token.
C40_CallbackExchangeAccepted ==
  [][(/\ lastResp.ep = "consent"
      /\ lastResp'.ep = "token"
      /\ lastResp'.req[1].grant_type = "authorization_code"
      /\ lastResp'.req[1].code # Nil
      /\ lastResp'.req[1].code[1] \in DOMAIN AUTHORIZATION_CODES
      /\ IsSecured(AUTHORIZATION_CODES[lastResp'.req[1].code[1]].client_id)
      /\ Registered(AUTHORIZATION_CODES[lastResp'.req[1].code[1]].client_id, CALLBACK_URI))
       => /\ lastResp'.status = 200
          /\ state'.access_token = lastResp'.access_token
          /\ state'.access_token # Nil]_vars

====
